---- MODULE Spec2Model ----
(***************************************************************************)
(* Model of the curriculum synthesis engine of the training consolidation  *)
(* workbench: the Concept Harmonizer (src/semantic/harmonization.py), the  *)
(* ingestion aggregator (src/semantic/assets.py) and the curriculum        *)
(* generator (src/services/generator_service.py and its refactored copy).  *)
(*                                                                         *)
(* The property graph is kept as node counts per key and edge counts per   *)
(* pair of keys, so that a CREATE where the code has a MERGE shows up as   *)
(* a count of 2.  Saliences are integers in tenths (5 is 0.5).             *)
(***************************************************************************)
EXTENDS Integers, Sequences, FiniteSets, TLC

(***************************************************************************)
(* Bounds and universes                                                    *)
(***************************************************************************)
ConceptNames == {"x", "y"}
CanonNames == {"K1", "K2"}
Descriptions == {"d1", "d2"}
MaxClusters == 2
MaxSources == 1
MaxHarmRuns == 2

CourseIds == {"A", "B"}
MaxPage == 2
MaxGroupElements == 3
MaxElements == 2
MaxConceptsPerSlide == 1
MaxIngestRuns == 2

NoValue == "null"

SeqUpTo(S, n) == UNION {[1..k -> S] : k \in 0..n}

VARIABLES
    conceptCount,   \* Concept nodes per name
    canonCount,     \* CanonicalConcept nodes per name
    canonDesc,      \* description property of the CanonicalConcept of a name
    alignsTo,       \* ALIGNS_TO edges per (Concept name, CanonicalConcept name)
    hrun,           \* harmonize_concepts runs: position, clusters in hand
    clusterCalls,   \* calls made to the clustering collaborator
    harmRuns,       \* harmonize_concepts runs started
    happlied,       \* cluster lists whose apply_clusters run has returned
    courseNodes,    \* ids of the Course nodes
    sectionNodes,   \* ids of the Section nodes, each with its HAS_SECTION edge
    slideCount,     \* Slide nodes per id
    hasSlide,       \* HAS_SLIDE edges <<node id, slide id>>
    teaches,        \* TEACHES edges <<slide id, concept name>>
    salience,       \* salience property of a TEACHES edge, in tenths
    conceptSummary, \* concept_summary property of a Section (NoSummary: unset)
    vectorCount,    \* SlideText objects of the vector index per slide id
    irun,           \* the build_knowledge_graph run: position, inputs in hand
    ingestRuns,     \* build_knowledge_graph runs started
    lastElements,   \* per course, the text elements of its latest run
    lastOutline,    \* per course, how the outline step of its latest run ended
    lastExtract,    \* per slide id, what extract_concepts last did for it
    returned,       \* per (slide id, name), the salience last returned for it
    projects,       \* ids of the Project nodes
    targetNodes,    \* TargetNode nodes, each with its HAS_CHILD edge
    suggestedSource,\* SUGGESTED_SOURCE edges <<project id, order, slide id>>
    modelCalls,     \* calls made to the skeleton-generation model
    vectorQueries,  \* near-text queries issued to the vector index
    grun,           \* the latest generate_skeleton call: inputs and outcome
    genRuns,        \* generate_skeleton calls made
    prun,           \* per caller, its _persist_project call: statements, position
    orun,           \* the latest OutlineHarmonizer.forward call: inputs and result
    grouped,        \* the latest run of the grouping loop: elements and page groups
    fetched,        \* the latest _fetch_source_outlines call: selection and result
    matched,        \* the latest _find_matching_slides_iterative call: inputs and result
    sensor          \* course_upload_sensor: bucket, cursor, run requests of the latest tick

harmVars == <<canonCount, canonDesc, alignsTo, hrun, clusterCalls, harmRuns, happlied>>

ingestVars == <<courseNodes, sectionNodes, slideCount, hasSlide, teaches, salience,
                conceptSummary, vectorCount, irun, ingestRuns, lastElements,
                lastOutline, lastExtract, returned>>

genVars == <<projects, targetNodes, suggestedSource, modelCalls, vectorQueries,
             grun, genRuns, prun, orun>>

auxVars == <<grouped, fetched, matched, sensor>>

vars == <<conceptCount, harmVars, ingestVars, genVars, auxVars>>

(***************************************************************************)
(* Concept Harmonizer: src/semantic/harmonization.py                       *)
(***************************************************************************)
ConceptCluster ==
    [canonical_name : CanonNames, description : Descriptions,
     source_concepts : SeqUpTo(ConceptNames, MaxSources)]

ClusterLists == SeqUpTo(ConceptCluster, MaxClusters)

\* MATCH (c:Concept) RETURN DISTINCT c.name, kept when the name is non-empty
fetch_concepts == {n \in ConceptNames : conceptCount[n] > 0}

\* MERGE (cc:CanonicalConcept {name: $name}): one node when none matches
MergeCanonicalCreate(count) == count + 1
MergeCanonical(count) == IF count = 0 THEN 1 ELSE count

\* MERGE (c)-[:ALIGNS_TO]->(cc) between a matched Concept and CanonicalConcept
MergeAlignsToCreate(count) == count + 1
MergeAlignsTo(count) == IF count = 0 THEN 1 ELSE count

\* the CanonicalConcept nodes and ALIGNS_TO edges as one value
NoCanon ==
    [canonCount |-> [k \in CanonNames |-> 0], canonDesc |-> [k \in CanonNames |-> NoValue],
     alignsTo |-> [e \in ConceptNames \X CanonNames |-> 0]]
CanonGraph ==
    [canonCount |-> canonCount, canonDesc |-> canonDesc, alignsTo |-> alignsTo]

\* again: the list in hand was already applied in full by an earlier run;
\* call: what the clustering call of the run did; retry: the caller's previous
\* run was aborted inside apply_clusters with this same list; base: the
\* canonical graph at the start of the run (of the aborted run, for a retry)
HarmIdle ==
    [pc |-> "idle", clusters |-> <<>>, ci |-> 1, si |-> 0, again |-> FALSE,
     call |-> "none", retry |-> FALSE, base |-> NoCanon]

\* the caller's previous run raised inside apply_clusters over `clusters`
Retries(run, clusters) ==
    run.pc = "raised" /\ run.call = "ok" /\ run.clusters = clusters

\* the statement after (ci, si) of apply_clusters: the next source of the
\* cluster, else the MERGE of the next cluster, else the return
NextPosition(run) ==
    LET cl == run.clusters[run.ci] IN
    IF run.si < Len(cl.source_concepts)
    THEN [run EXCEPT !.si = run.si + 1]
    ELSE IF run.ci < Len(run.clusters)
         THEN [run EXCEPT !.ci = run.ci + 1, !.si = 0]
         ELSE [run EXCEPT !.pc = "done"]

\* harmonize(): no Concept names, so no call to the clustering module and an
\* empty cluster list, over which apply_clusters does nothing
HarmonizeEmpty(r) ==
    /\ hrun[r].pc \in {"idle", "done", "raised"}
    /\ harmRuns < MaxHarmRuns
    /\ fetch_concepts = {}
    /\ hrun' = [hrun EXCEPT ![r] = [HarmIdle EXCEPT !.pc = "done", !.base = CanonGraph]]
    /\ harmRuns' = harmRuns + 1
    /\ happlied' = happlied \cup {<<>>}
    /\ UNCHANGED <<conceptCount, canonCount, canonDesc, alignsTo, clusterCalls>>
    /\ UNCHANGED <<ingestVars, genVars, auxVars>>

\* harmonize(): the clustering module returns prediction.clusters
HarmonizeCall(r, clusters) ==
    /\ hrun[r].pc \in {"idle", "done", "raised"}
    /\ harmRuns < MaxHarmRuns
    /\ fetch_concepts # {}
    /\ hrun' = [hrun EXCEPT ![r] =
           [HarmIdle EXCEPT !.clusters = clusters,
                            !.again = clusters \in happlied,
                            !.call = "ok",
                            !.retry = Retries(hrun[r], clusters),
                            !.base = IF Retries(hrun[r], clusters) THEN hrun[r].base
                                     ELSE CanonGraph,
                            !.pc = IF clusters = <<>> THEN "done" ELSE "apply"]]
    /\ happlied' = IF clusters = <<>> THEN happlied \cup {<<>>} ELSE happlied
    /\ harmRuns' = harmRuns + 1
    /\ clusterCalls' = clusterCalls + 1
    /\ UNCHANGED <<conceptCount, canonCount, canonDesc, alignsTo>>
    /\ UNCHANGED <<ingestVars, genVars, auxVars>>

\* harmonize(): the clustering call raises; harmonize_concepts logs and re-raises
HarmonizeCallFailsApplies(r) ==
    /\ hrun[r].pc \in {"idle", "done", "raised"}
    /\ harmRuns < MaxHarmRuns
    /\ fetch_concepts # {}
    /\ \E clusters \in ClusterLists \ {<<>>} :
          hrun' = [hrun EXCEPT ![r] =
             [HarmIdle EXCEPT !.pc = "apply", !.call = "failed", !.clusters = clusters,
                              !.base = CanonGraph]]
    /\ harmRuns' = harmRuns + 1
    /\ clusterCalls' = clusterCalls + 1
    /\ UNCHANGED <<conceptCount, canonCount, canonDesc, alignsTo, happlied>>
    /\ UNCHANGED <<ingestVars, genVars, auxVars>>
HarmonizeCallFails(r) ==
    /\ hrun[r].pc \in {"idle", "done", "raised"}
    /\ harmRuns < MaxHarmRuns
    /\ fetch_concepts # {}
    /\ hrun' = [hrun EXCEPT ![r] =
           [HarmIdle EXCEPT !.pc = "raised", !.call = "failed", !.base = CanonGraph]]
    /\ harmRuns' = harmRuns + 1
    /\ clusterCalls' = clusterCalls + 1
    /\ UNCHANGED <<conceptCount, canonCount, canonDesc, alignsTo, happlied>>
    /\ UNCHANGED <<ingestVars, genVars, auxVars>>

Finished(r, run) ==
    IF run.pc = "done" THEN happlied \cup {run.clusters} ELSE happlied

\* apply_clusters run without interruption from position (ci, si) up to, and
\* not including, position (stop_ci, stop_si), over the canonical graph g
RECURSIVE ApplyFrom(_, _, _, _, _, _)
ApplyFrom(g, clusters, ci, si, stop_ci, stop_si) ==
    IF ci > Len(clusters) \/ (ci = stop_ci /\ si = stop_si) THEN g
    ELSE LET cl == clusters[ci]
             k == cl.canonical_name
             done ==
                 IF si = 0
                 THEN [g EXCEPT !.canonCount[k] = MergeCanonical(@),
                                !.canonDesc[k] = cl.description]
                 ELSE IF conceptCount[cl.source_concepts[si]] > 0 /\ g.canonCount[k] > 0
                      THEN [g EXCEPT !.alignsTo[<<cl.source_concepts[si], k>>] =
                                         MergeAlignsTo(@)]
                      ELSE g
         IN IF si < Len(cl.source_concepts)
            THEN ApplyFrom(done, clusters, ci, si + 1, stop_ci, stop_si)
            ELSE ApplyFrom(done, clusters, ci + 1, 0, stop_ci, stop_si)

\* apply_clusters(clusters) run to its end over g
apply_clusters(g, clusters) == ApplyFrom(g, clusters, 1, 0, Len(clusters) + 1, 0)

\* apply_clusters: MERGE (cc:CanonicalConcept {name}) SET cc.description
ApplyMergeCanonical(r) ==
    /\ hrun[r].pc = "apply"
    /\ hrun[r].si = 0
    /\ LET cl == hrun[r].clusters[hrun[r].ci]
           k == cl.canonical_name
           next == NextPosition(hrun[r])
       IN /\ canonCount' = [canonCount EXCEPT ![k] = MergeCanonical(@)]
          /\ canonDesc' = [canonDesc EXCEPT ![k] = cl.description]
          /\ hrun' = [hrun EXCEPT ![r] = next]
          /\ happlied' = Finished(r, next)
    /\ UNCHANGED <<conceptCount, alignsTo, clusterCalls, harmRuns>>
    /\ UNCHANGED <<ingestVars, genVars, auxVars>>

\* apply_clusters: MATCH (c:Concept), MATCH (cc:CanonicalConcept), MERGE edge
ApplyLinkSource(r) ==
    /\ hrun[r].pc = "apply"
    /\ hrun[r].si > 0
    /\ LET cl == hrun[r].clusters[hrun[r].ci]
           k == cl.canonical_name
           c == cl.source_concepts[hrun[r].si]
           next == NextPosition(hrun[r])
       IN /\ alignsTo' = IF conceptCount[c] > 0 /\ canonCount[k] > 0
                         THEN [alignsTo EXCEPT ![<<c, k>>] = MergeAlignsTo(@)]
                         ELSE alignsTo
          /\ hrun' = [hrun EXCEPT ![r] = next]
          /\ happlied' = Finished(r, next)
    /\ UNCHANGED <<conceptCount, canonCount, canonDesc, clusterCalls, harmRuns>>
    /\ UNCHANGED <<ingestVars, genVars, auxVars>>

\* apply_clusters has no handler: a failing statement aborts the run and
\* harmonize_concepts re-raises
ApplyWriteFails(r) ==
    /\ hrun[r].pc = "apply"
    /\ hrun' = [hrun EXCEPT ![r].pc = "raised"]
    /\ UNCHANGED <<conceptCount, canonCount, canonDesc, alignsTo, clusterCalls,
                   harmRuns, happlied>>
    /\ UNCHANGED <<ingestVars, genVars, auxVars>>

\* the callers of harmonize_concepts; SeqRunners runs it one run after the other
HarmRunners == {"h1", "h2"}
SeqRunners == {"h1"}

HarmNext ==
    \/ \E r \in SeqRunners : HarmonizeEmpty(r)
    \/ \E r \in SeqRunners, clusters \in ClusterLists : HarmonizeCall(r, clusters)
    \/ \E r \in SeqRunners : HarmonizeCallFails(r)
    \/ \E r \in SeqRunners : ApplyMergeCanonical(r)
    \/ \E r \in SeqRunners : ApplyLinkSource(r)
    \/ \E r \in SeqRunners : ApplyWriteFails(r)

\* two callers at once: each statement of apply_clusters is one autocommit
\* query (no transaction is opened), so the statements of the two runs
\* interleave one by one
\* the cluster lists of the concurrent runs: every cluster has one source
\* concept, the same one for all of them
ParConcepts == {"x"}
ParClusterLists ==
    {clusters \in ClusterLists :
        \A i \in 1..Len(clusters) :
            /\ clusters[i].source_concepts # <<>>
            /\ \A j \in 1..Len(clusters[i].source_concepts) :
                  clusters[i].source_concepts[j] \in ParConcepts}

HarmParNext ==
    \/ \E r \in HarmRunners : HarmonizeEmpty(r)
    \/ \E r \in HarmRunners, clusters \in ParClusterLists : HarmonizeCall(r, clusters)
    \/ \E r \in HarmRunners : HarmonizeCallFails(r)
    \/ \E r \in HarmRunners : ApplyMergeCanonical(r)
    \/ \E r \in HarmRunners : ApplyLinkSource(r)
    \/ \E r \in HarmRunners : ApplyWriteFails(r)


(***************************************************************************)
(* Ingestion aggregator: build_knowledge_graph, src/semantic/assets.py     *)
(***************************************************************************)
CHUNK_LIMIT == 1500
DefaultSalience == 5
SummarySize == 5

PageNums == 1..(MaxPage + MaxElements)
SlideIds == CourseIds \X PageNums
Paths == {<<0>>, <<0, 0>>}
SectionIds == CourseIds \X Paths
CourseNode(c) == <<c, <<>>>>
NoSummary == <<NoValue>>

\* a text element of text.json: text (its length, whether it is blank after
\* trimming) and metadata with or without the page_number key
ElementSet ==
    [has_page : BOOLEAN, page : 1..MaxPage, len : {700, 1600}, blank : BOOLEAN]

\* the outlines extract_outline returns, as the set of index paths of their
\* sections (create_section_nodes turns path <<i, j>> under course c into the
\* id c_s{i}_s{j})
ExtractedOutlines == {{}, {<<0>>, <<0, 0>>}}

ReturnedSaliences == {3, 9, 12}
\* a concept of SlideContent.concepts; has_salience is FALSE when the object
\* carries no salience attribute
ReturnedConcept ==
    [name : ConceptNames, has_salience : {TRUE}, salience : ReturnedSaliences]
        \cup [name : ConceptNames, has_salience : {FALSE}, salience : {0}]

\* salience = getattr(concept, 'salience', 0.5)
EffSalience(concept) ==
    IF concept.has_salience THEN concept.salience ELSE DefaultSalience

\* pages[key].append(text): the groups in order of first appearance
AppendToPage(pages, key, el) ==
    IF \E i \in 1..Len(pages) : pages[i].page_num = key
    THEN [i \in 1..Len(pages) |->
            IF pages[i].page_num = key
            THEN [pages[i] EXCEPT !.texts = Append(@, el)]
            ELSE pages[i]]
    ELSE Append(pages, [page_num |-> key, texts |-> <<el>>])

\* the grouping loop over text_elements, from element i on
RECURSIVE GroupFrom(_, _, _, _, _)
GroupFrom(els, i, pages, current_chunk_page, current_chunk_size) ==
    IF i > Len(els) THEN pages
    ELSE LET el == els[i] IN
         IF el.has_page
         THEN GroupFrom(els, i + 1, AppendToPage(pages, el.page, el),
                        current_chunk_page, current_chunk_size)
         ELSE LET grown == current_chunk_size + el.len
                  put == AppendToPage(pages, current_chunk_page, el)
              IN IF grown > CHUNK_LIMIT
                 THEN GroupFrom(els, i + 1, put, current_chunk_page + 1, 0)
                 ELSE GroupFrom(els, i + 1, put, current_chunk_page, grown)

GroupPages(els) == GroupFrom(els, 1, <<>>, 1, 0)

\* current_chunk_page after each element of the loop, from element i on
RECURSIVE CounterFrom(_, _, _, _)
CounterFrom(els, i, current_chunk_page, current_chunk_size) ==
    IF i > Len(els) THEN <<>>
    ELSE LET el == els[i] IN
         IF el.has_page
         THEN <<current_chunk_page>>
              \o CounterFrom(els, i + 1, current_chunk_page, current_chunk_size)
         ELSE LET grown == current_chunk_size + el.len IN
              IF grown > CHUNK_LIMIT
              THEN <<current_chunk_page + 1>> \o CounterFrom(els, i + 1, current_chunk_page + 1, 0)
              ELSE <<current_chunk_page>> \o CounterFrom(els, i + 1, current_chunk_page, grown)

\* text_elements with each element's position in the list
Tagged(els) ==
    [i \in 1..Len(els) |->
        [has_page |-> els[i].has_page, page |-> els[i].page, len |-> els[i].len,
         blank |-> els[i].blank, idx |-> i]]

GroupIdle == [pc |-> "idle", elements |-> <<>>, pages |-> <<>>, counter |-> <<>>]

\* the grouping loop of build_knowledge_graph runs over text_elements
Group(elements) ==
    /\ grouped.pc = "idle"
    /\ grouped' = [pc |-> "done", elements |-> elements,
                   pages |-> GroupPages(Tagged(elements)),
                   counter |-> CounterFrom(elements, 1, 1, 0)]
    /\ UNCHANGED <<conceptCount, harmVars, ingestVars, genVars>>
    /\ UNCHANGED <<fetched, matched, sensor>>

\* not slide_text.strip(): every text of the group is blank
BlankGroup(group) == \A i \in 1..Len(group.texts) : group.texts[i].blank

\* MERGE of a node keyed by id or name
MergeNode(count) == IF count = 0 THEN 1 ELSE count

\* the graph and index as one value, for the loops below
Graph ==
    [slideCount |-> slideCount, hasSlide |-> hasSlide, conceptCount |-> conceptCount,
     teaches |-> teaches, salience |-> salience, vectorCount |-> vectorCount]

\* MATCH (c:Course {id}) MERGE (sl:Slide {id}) ... MERGE (c)-[:HAS_SLIDE]->(sl):
\* without a Course node the MATCH yields no row and nothing is written
CreateSlide(g, hasCourse, c, sid) ==
    IF hasCourse
    THEN [g EXCEPT !.slideCount[sid] = MergeNode(@),
                   !.hasSlide = @ \cup {<<CourseNode(c), sid>>}]
    ELSE g

\* MERGE (con:Concept {name}) ... MATCH (sl:Slide {id}) MERGE (sl)-[t:TEACHES]->(con)
\* SET t.salience: the Concept is merged either way, the edge only if the
\* Slide exists
RECURSIVE LinkConcepts(_, _, _, _)
LinkConcepts(g, sid, concepts, i) ==
    IF i > Len(concepts) THEN g
    ELSE LET concept == concepts[i]
             withNode == [g EXCEPT !.conceptCount[concept.name] = MergeNode(@)]
             withEdge ==
                 IF g.slideCount[sid] > 0
                 THEN [withNode EXCEPT
                         !.teaches = @ \cup {<<sid, concept.name>>},
                         !.salience[<<sid, concept.name>>] = EffSalience(concept)]
                 ELSE withNode
         IN LinkConcepts(withEdge, sid, concepts, i + 1)

\* (sec)-[:HAS_SECTION*0..]->(child:Section) over the Section nodes
IsPrefix(p, q) == Len(p) <= Len(q) /\ SubSeq(q, 1, Len(p)) = p
Descendants(sections, sec) ==
    {ch \in sections : ch[1] = sec[1] /\ IsPrefix(sec[2], ch[2])}

RECURSIVE SumSalience(_, _)
SumSalience(edges, sal) ==
    IF edges = {} THEN 0
    ELSE LET e == CHOOSE x \in edges : TRUE
         IN sal[e] + SumSalience(edges \ {e}, sal)

\* the TEACHES edges to concept n from slides held by sec or a Section below it
SubtreeEdges(g, sections, sec, n) ==
    {e \in g.teaches :
        /\ e[2] = n
        /\ \E ch \in Descendants(sections, sec) : <<ch, e[1]>> \in g.hasSlide}

\* sum(coalesce(t.salience, 0.5)) per (sec, concept name)
TotalSalience(g, sections, sec, n) ==
    SumSalience(SubtreeEdges(g, sections, sec, n), g.salience)

\* the names left by WHERE concept_name IS NOT NULL for sec
AggregatedNames(g, sections, sec) ==
    {n \in ConceptNames : SubtreeEdges(g, sections, sec, n) # {}}

\* ORDER BY sec.id, total_salience DESC, then concepts[0..5]: the orders of
\* names with equal totals are left to the store
SummaryChoices(g, sections, sec) ==
    LET names == AggregatedNames(g, sections, sec)
        k == IF Cardinality(names) < SummarySize THEN Cardinality(names)
             ELSE SummarySize
    IN {q \in [1..k -> names] :
          /\ \A i, j \in 1..k : i < j => q[i] # q[j]
          /\ \A i, j \in 1..k : i < j =>
                TotalSalience(g, sections, sec, q[i]) >=
                    TotalSalience(g, sections, sec, q[j])
          /\ \A n \in names : (\A i \in 1..k : q[i] # n) =>
                \A i \in 1..k : TotalSalience(g, sections, sec, q[i]) >=
                                    TotalSalience(g, sections, sec, n)}

\* MATCH (c:Course {id})-[:HAS_SECTION]->(sec:Section): the direct children
TopSections(sections, c) == {sec \in sections : sec[1] = c /\ Len(sec[2]) = 1}

\* the Sections the aggregation query SETs: those with at least one row left
AggregatedSections(g, sections, c) ==
    {sec \in TopSections(sections, c) : AggregatedNames(g, sections, sec) # {}}

\* what the extraction collaborator returns for one slide, or its failure
ExtractOutcomes ==
    {[ok |-> FALSE, concepts |-> <<>>]} \cup
    [ok : {TRUE}, concepts : SeqUpTo(ReturnedConcept, MaxConceptsPerSlide)]

NamesOf(concepts) == {concepts[i].name : i \in 1..Len(concepts)}

IngestIdle ==
    [pc |-> "idle", course |-> NoValue, pages |-> <<>>, i |-> 1,
     sameElements |-> FALSE, sameOutline |-> FALSE, sameConcepts |-> FALSE,
     slidesBefore |-> {}, conceptsBefore |-> {}, aggregated |-> FALSE]

\* the next page group at or after i that is not skipped as blank, else the
\* aggregation pass
SeekPage(run, i) ==
    LET rest == {j \in i..Len(run.pages) : ~BlankGroup(run.pages[j])} IN
    IF rest = {} THEN [run EXCEPT !.pc = "aggregate"]
    ELSE [run EXCEPT !.pc = "extract",
                     !.i = CHOOSE j \in rest : \A k \in rest : j <= k]

\* build_knowledge_graph is materialised for course c: text.json is loaded
IngestStart(c, elements) ==
    /\ irun.pc \in {"idle", "done"}
    /\ ingestRuns < MaxIngestRuns
    /\ irun' = [IngestIdle EXCEPT
                  !.pc = "outline", !.course = c, !.pages = GroupPages(elements),
                  !.sameElements = (lastElements[c] = <<TRUE, elements>>),
                  !.sameConcepts = TRUE,
                  !.slidesBefore = {sl \in SlideIds : slideCount[sl] > 0},
                  !.conceptsBefore = {n \in ConceptNames : conceptCount[n] > 0}]
    /\ ingestRuns' = ingestRuns + 1
    /\ lastElements' = [lastElements EXCEPT ![c] = <<TRUE, elements>>]
    /\ UNCHANGED <<conceptCount, courseNodes, sectionNodes, slideCount, hasSlide,
                   teaches, salience, conceptSummary, vectorCount, lastOutline,
                   lastExtract, returned>>
    /\ UNCHANGED <<harmVars, genVars, auxVars>>

\* step 4: extract_outline returns; MERGE the Course, then the Sections
OutlineCreated(outline) ==
    /\ irun.pc = "outline"
    /\ courseNodes' = courseNodes \cup {irun.course}
    /\ sectionNodes' = sectionNodes \cup {<<irun.course, p>> : p \in outline}
    /\ irun' = [SeekPage(irun, 1) EXCEPT
                  !.sameOutline = (lastOutline[irun.course] = "created")]
    /\ lastOutline' = [lastOutline EXCEPT ![irun.course] = "created"]
    /\ UNCHANGED <<conceptCount, slideCount, hasSlide, teaches, salience,
                   conceptSummary, vectorCount, ingestRuns, lastElements,
                   lastExtract, returned>>
    /\ UNCHANGED <<harmVars, genVars, auxVars>>

\* step 4: extract_outline raises; logged, no Course and no Section is written
OutlineFails ==
    /\ irun.pc = "outline"
    /\ irun' = [SeekPage(irun, 1) EXCEPT
                  !.sameOutline = (lastOutline[irun.course] = "failed")]
    /\ lastOutline' = [lastOutline EXCEPT ![irun.course] = "failed"]
    /\ UNCHANGED <<conceptCount, courseNodes, sectionNodes, slideCount, hasSlide,
                   teaches, salience, conceptSummary, vectorCount, ingestRuns,
                   lastElements, lastExtract, returned>>
    /\ UNCHANGED <<harmVars, genVars, auxVars>>

CurrentSlide == <<irun.course, irun.pages[irun.i].page_num>>

RECURSIVE RecordReturned(_, _, _, _)
RecordReturned(ret, sid, concepts, i) ==
    IF i > Len(concepts) THEN ret
    ELSE RecordReturned(
             [ret EXCEPT ![<<sid, concepts[i].name>>] =
                 [given |-> concepts[i].has_salience, value |-> concepts[i].salience]],
             sid, concepts, i + 1)

\* the Slide upsert of the page group, then extract_concepts returns and each
\* concept is linked
ExtractLinked(concepts) ==
    /\ irun.pc = "extract"
    /\ LET sid == CurrentSlide
           g1 == CreateSlide(Graph, irun.course \in courseNodes, irun.course, sid)
           g2 == LinkConcepts(g1, sid, concepts, 1)
           now == [state |-> "ok", names |-> NamesOf(concepts)]
       IN /\ slideCount' = g2.slideCount
          /\ hasSlide' = g2.hasSlide
          /\ conceptCount' = g2.conceptCount
          /\ teaches' = g2.teaches
          /\ salience' = g2.salience
          /\ irun' = [irun EXCEPT !.pc = "index",
                                  !.sameConcepts = @ /\ lastExtract[sid] = now]
          /\ lastExtract' = [lastExtract EXCEPT ![sid] = now]
          /\ returned' = RecordReturned(returned, sid, concepts, 1)
    /\ UNCHANGED <<courseNodes, sectionNodes, conceptSummary, vectorCount,
                   ingestRuns, lastElements, lastOutline>>
    /\ UNCHANGED <<harmVars, genVars, auxVars>>

\* the Slide upsert of the page group, then extract_concepts raises; logged
ExtractFails ==
    /\ irun.pc = "extract"
    /\ LET sid == CurrentSlide
           g1 == CreateSlide(Graph, irun.course \in courseNodes, irun.course, sid)
           now == [state |-> "failed", names |-> {}]
       IN /\ slideCount' = g1.slideCount
          /\ hasSlide' = g1.hasSlide
          /\ irun' = [irun EXCEPT !.pc = "index", !.sameConcepts = FALSE]
          /\ lastExtract' = [lastExtract EXCEPT ![sid] = now]
    /\ UNCHANGED <<conceptCount, courseNodes, sectionNodes, teaches, salience,
                   conceptSummary, vectorCount, ingestRuns, lastElements,
                   lastOutline, returned>>
    /\ UNCHANGED <<harmVars, genVars, auxVars>>

\* weaviate_client.add_object for the slide: a new SlideText object
IndexAdded ==
    /\ irun.pc = "index"
    /\ vectorCount' = [vectorCount EXCEPT ![CurrentSlide] = @ + 1]
    /\ irun' = SeekPage(irun, irun.i + 1)
    /\ UNCHANGED <<conceptCount, courseNodes, sectionNodes, slideCount, hasSlide,
                   teaches, salience, conceptSummary, ingestRuns, lastElements,
                   lastOutline, lastExtract, returned>>
    /\ UNCHANGED <<harmVars, genVars, auxVars>>

\* add_object raises; logged
IndexFails ==
    /\ irun.pc = "index"
    /\ irun' = SeekPage(irun, irun.i + 1)
    /\ UNCHANGED <<conceptCount, courseNodes, sectionNodes, slideCount, hasSlide,
                   teaches, salience, conceptSummary, vectorCount, ingestRuns,
                   lastElements, lastOutline, lastExtract, returned>>
    /\ UNCHANGED <<harmVars, genVars, auxVars>>

\* step 6: the aggregation query runs and SETs concept_summary on the Sections
\* it has rows for
AggregateSections ==
    /\ irun.pc = "aggregate"
    /\ LET toSet == AggregatedSections(Graph, sectionNodes, irun.course) IN
       \E pick \in [toSet -> SeqUpTo(ConceptNames, SummarySize)] :
          /\ \A sec \in toSet : pick[sec] \in SummaryChoices(Graph, sectionNodes, sec)
          /\ conceptSummary' =
                 [sec \in SectionIds |->
                     IF sec \in toSet THEN pick[sec] ELSE conceptSummary[sec]]
    /\ irun' = [irun EXCEPT !.pc = "done", !.aggregated = TRUE]
    /\ UNCHANGED <<conceptCount, courseNodes, sectionNodes, slideCount, hasSlide,
                   teaches, salience, vectorCount, ingestRuns, lastElements,
                   lastOutline, lastExtract, returned>>
    /\ UNCHANGED <<harmVars, genVars, auxVars>>

\* step 6: the aggregation query raises; logged, the job does not fail
AggregateFails ==
    /\ irun.pc = "aggregate"
    /\ irun' = [irun EXCEPT !.pc = "done"]
    /\ UNCHANGED <<conceptCount, courseNodes, sectionNodes, slideCount, hasSlide,
                   teaches, salience, conceptSummary, vectorCount, ingestRuns,
                   lastElements, lastOutline, lastExtract, returned>>
    /\ UNCHANGED <<harmVars, genVars, auxVars>>

(***************************************************************************)
(* Curriculum generator: src/services/generator_service.py and its         *)
(* refactoring, src/services/generator_service copy.py                     *)
(***************************************************************************)
MaxKeyConcepts == 2
MaxSections == 2
MaxGenRuns == 1
MaxPersistRuns == 2

PRIORITY_CONCEPTS == 5
HITS_PER_CONCEPT == 2
SLIDES_PER_SECTION == 6
OUTLINE_CONCEPTS == 15
top_n == 3
COURSE_CONCEPTS == 10
OUTLINE_SALIENCE == 5
FALLBACK_CONCEPTS == 5

\* "x" is a name slides may teach, "q" one that no slide teaches
KeyConcepts == {"x", "q"}
CourseOrder == <<"A", "B">>
CourseRank(c) == CHOOSE i \in 1..Len(CourseOrder) : CourseOrder[i] = c

Min(a, b) == IF a < b THEN a ELSE b
FirstN(q, n) == SubSeq(q, 1, Min(n, Len(q)))
Injective(q) == \A i, j \in 1..Len(q) : i < j => q[i] # q[j]
DistinctSeqs(S) == {q \in SeqUpTo(S, Cardinality(S)) : Injective(q)}
Range(q) == {q[i] : i \in 1..Len(q)}

\* selected_source_ids: ids of Course nodes and of Section nodes
SourceIds == {CourseNode(c) : c \in CourseIds} \cup SectionIds

\* MATCH (n) WHERE n.id = sid
NodeExists(n) == IF n[2] = <<>> THEN n[1] \in courseNodes ELSE n \in sectionNodes

\* OPTIONAL MATCH (n)-[:HAS_SECTION*]->(child:Section): the Sections below n
SectionsBelow(n) ==
    {ch \in sectionNodes : ch[1] = n[1] /\ ch # n /\ IsPrefix(n[2], ch[2])}

\* CASE WHEN size(collect(child)) > 0 THEN collect(child) ELSE [n] END
Targets(n) == IF SectionsBelow(n) # {} THEN SectionsBelow(n) ELSE {n}

ExpandedTargets(selected) ==
    UNION {Targets(n) : n \in {m \in selected : NodeExists(m)}}

\* (target)-[:HAS_SLIDE]->(slide:Slide)-[t:TEACHES]->(con:Concept)
TargetEdges(target, name) ==
    {e \in teaches : e[2] = name /\ <<target, e[1]>> \in hasSlide}

\* max(coalesce(t.salience, 0)) per (target, concept name)
MaxScore(target, name) ==
    LET edges == TargetEdges(target, name)
    IN salience[CHOOSE e \in edges : \A f \in edges : salience[e] >= salience[f]]

\* the rows left by WHERE c_name IS NOT NULL
TargetConcepts(target) == {n \in ConceptNames : TargetEdges(target, n) # {}}
SourceUnits(selected) ==
    {t \in ExpandedTargets(selected) : TargetConcepts(t) # {}}

\* Semantic Bucketing of a score
Tag(score) ==
    IF score >= 8 THEN "(Primary)"
    ELSE IF score >= 5 THEN "(Secondary)" ELSE "(Mention)"

\* sorted(r['concepts'], key=score, reverse=True)[:15]: the order of concepts
\* with equal scores is the order the store collected them in
SortedConcepts(target) ==
    LET names == TargetConcepts(target)
        k == Min(OUTLINE_CONCEPTS, Cardinality(names))
    IN {q \in [1..k -> names] :
          /\ Injective(q)
          /\ \A i, j \in 1..k : i < j => MaxScore(target, q[i]) >= MaxScore(target, q[j])
          /\ \A n \in names \ Range(q) :
                \A i \in 1..k : MaxScore(target, q[i]) >= MaxScore(target, n)}

\* ORDER BY bu, course_id over the rows (bu is the same for all)
UnitOrders(units) ==
    {q \in [1..Cardinality(units) -> units] :
        /\ Injective(q)
        /\ \A i, j \in 1..Len(q) : i < j => CourseRank(q[i][1]) <= CourseRank(q[j][1])}

\* _fetch_source_outlines of the refactored service: the tuples
\* (outlines, course_ids, all_known_concepts) it can return
fetch_source_outlines_copy(selected) ==
    LET units == SourceUnits(selected) IN
    {<<[i \in 1..Len(q) |->
            [section_title |-> q[i],
             concepts |-> [j \in 1..Len(pick[q[i]]) |->
                             <<pick[q[i]][j], Tag(MaxScore(q[i], pick[q[i]][j]))>>]]],
       {t[1] : t \in units},
       UNION {Range(pick[t]) : t \in units}>> :
        q \in UnitOrders(units),
        pick \in {f \in [units -> UNION {SortedConcepts(t) : t \in units}] :
                     \A t \in units : f[t] \in SortedConcepts(t)}}

FetchIdle ==
    [pc |-> "idle", selected |-> {}, outlines |-> <<>>, course_ids |-> {},
     known |-> {}]

\* a call of _fetch_source_outlines of the refactored service returns ret
FetchOutlines(selected, ret) ==
    /\ fetched.pc = "idle"
    /\ fetched' = [pc |-> "done", selected |-> selected, outlines |-> ret[1],
                   course_ids |-> ret[2], known |-> ret[3]]
    /\ UNCHANGED <<conceptCount, harmVars, ingestVars, genVars>>
    /\ UNCHANGED <<grouped, matched, sensor>>

\* _fetch_source_outlines of generator_service.py: MATCH (course:Course) WHERE
\* course.id IN $source_ids, concepts taught with salience >= 0.5, the first 10;
\* the tuples (outlines, course_ids) it can return
SalientConcepts(c) ==
    {n \in ConceptNames :
        \E e \in TargetEdges(CourseNode(c), n) : salience[e] >= OUTLINE_SALIENCE}
fetch_source_outlines(selected) ==
    LET courses == {c \in CourseIds : CourseNode(c) \in selected /\ c \in courseNodes}
    IN {<<[i \in 1..Len(q) |-> [section_title |-> CourseNode(q[i]), concepts |-> pick[q[i]]]],
          courses>> :
          q \in {p \in [1..Cardinality(courses) -> courses] : Injective(p)},
          pick \in {f \in [courses -> SUBSET ConceptNames] :
                       \A c \in courses :
                          /\ f[c] \subseteq SalientConcepts(c)
                          /\ Cardinality(f[c]) =
                               Min(COURSE_CONCEPTS, Cardinality(SalientConcepts(c)))}}

(***************************************************************************)
(* OutlineHarmonizer: src/dspy_modules/outline_harmonizer.py               *)
(***************************************************************************)
MaxUnits == 2
MaxItems == 2

RequiredFields == {"title", "rationale", "key_concepts"}

\* TEMPLATE_MODULES as loaded from the template configuration: a module
\* holding one section and a module holding a list of sections
TemplateModules ==
    <<[key |-> "overview", type |-> "intro", is_list |-> FALSE],
      [key |-> "technical_modules", type |-> "technical", is_list |-> TRUE]>>
TemplateKeys == {TemplateModules[i].key : i \in 1..Len(TemplateModules)}

\* a source outline unit; its concepts are 2 or 6 formatted names
UnitConcepts == {<<"c1", "c2">>, <<"c1", "c2", "c3", "c4", "c5", "c6">>}
SourceOutline == [bu : {"bu1"}, section_title : {"u1", "u2"}, concepts : UnitConcepts]
SourceOutlineLists == SeqUpTo(SourceOutline, MaxUnits) \ {<<>>}

\* an item of a JSON array of the model's output: an object with some of
\* the keys title, rationale, key_concepts, type; or a value that is no object
FieldSets ==
    {RequiredFields, RequiredFields \cup {"type"}, RequiredFields \ {"title"}}
JsonItem ==
    [kind : {"object"}, fields : FieldSets] \cup [kind : {"scalar"}, fields : {{}}]

\* the value of a key of a JSON mapping: none, an object, an array or a scalar
AbsentValue == [kind |-> "absent", fields |-> {}, items |-> <<>>]
JsonValue ==
    {AbsentValue}
        \cup [kind : {"object"}, fields : FieldSets, items : {<<>>}]
        \cup [kind : {"array"}, fields : {{}}, items : SeqUpTo(JsonItem, MaxItems)]
        \cup [kind : {"scalar"}, fields : {{}}, items : {<<>>}]

\* prediction.consolidated_plan: text that is no JSON, or the JSON of a
\* scalar, of an array, or of a mapping with values at template keys
\* "extra" is a key of the output that is no key of the template
OutputKeys == TemplateKeys \cup {"extra"}
NoPlan == [k \in OutputKeys |-> AbsentValue]
MappingPlans ==
    {plan \in [OutputKeys -> JsonValue] :
        plan["extra"] \in {AbsentValue,
                           [kind |-> "object", fields |-> RequiredFields, items |-> <<>>]}}
ModelOutputs ==
    [kind : {"not_json", "scalar"}, items : {<<>>}, plan : {NoPlan}]
        \cup [kind : {"array"}, items : SeqUpTo(JsonItem, MaxItems), plan : {NoPlan}]
        \cup [kind : {"mapping"}, items : {<<>>}, plan : MappingPlans]

\* a section of the returned list: the keys it has, its title, its concepts
\* and its type ("none" when the key is missing)
ModelSection(fields, type) ==
    [fields |-> fields \cup {"type"}, title |-> "model", rationale |-> "model",
     key_concepts |-> <<>>, type |-> type]

\* _fallback_merge: one section per source outline, in input order
fallback_merge(source_outlines) ==
    [i \in 1..Len(source_outlines) |->
        [fields |-> RequiredFields \cup {"type"},
         title |-> source_outlines[i].section_title,
         rationale |-> source_outlines[i].bu,
         key_concepts |-> SubSeq(source_outlines[i].concepts, 1,
                                 IF Len(source_outlines[i].concepts) < FALLBACK_CONCEPTS
                                 THEN Len(source_outlines[i].concepts)
                                 ELSE FALLBACK_CONCEPTS),
         type |-> "technical"]]

\* item['type'] = module_type: item assignment raises TypeError on a value
\* that is no object (a list, a string, a number, null)
SetTypeRaises(kind) == kind # "object"

\* for item in plan_data[key]: item['type'] = module_type; final_tree.append(item)
RECURSIVE FlattenItems(_, _, _)
FlattenItems(items, type, i) ==
    IF i > Len(items) THEN [raised |-> FALSE, sections |-> <<>>]
    ELSE IF SetTypeRaises(items[i].kind) THEN [raised |-> TRUE, sections |-> <<>>]
    ELSE LET rest == FlattenItems(items, type, i + 1) IN
         IF rest.raised THEN rest
         ELSE [raised |-> FALSE,
               sections |-> <<ModelSection(items[i].fields, type)>> \o rest.sections]

\* for module_config in self.template_modules, from module m on
RECURSIVE FlattenPlan(_, _)
FlattenPlan(plan, m) ==
    IF m > Len(TemplateModules) THEN [raised |-> FALSE, sections |-> <<>>]
    ELSE LET module == TemplateModules[m]
             value == plan[module.key]
             here ==
                 IF value.kind = "absent" THEN [raised |-> FALSE, sections |-> <<>>]
                 ELSE IF module.is_list /\ value.kind = "array"
                      THEN FlattenItems(value.items, module.type, 1)
                      ELSE IF SetTypeRaises(value.kind)
                           THEN [raised |-> TRUE, sections |-> <<>>]
                           ELSE [raised |-> FALSE,
                                 sections |-> <<ModelSection(value.fields, module.type)>>]
         IN IF here.raised THEN here
            ELSE LET rest == FlattenPlan(plan, m + 1) IN
                 IF rest.raised THEN rest
                 ELSE [raised |-> FALSE, sections |-> here.sections \o rest.sections]

\* the legacy list: if 'type' not in s: s['type'] = 'technical', under a bare
\* except; an item that is no object raises there and the list is given up
LegacySection(item) ==
    [fields |-> item.fields \cup {"type"}, title |-> "model", rationale |-> "model",
     key_concepts |-> <<>>, type |-> IF "type" \in item.fields THEN "given" ELSE "technical"]

\* OutlineHarmonizer.forward after the one call of self.generate
forward(source_outlines, output) ==
    IF output.kind = "mapping"
    THEN LET flat == FlattenPlan(output.plan, 1) IN
         IF flat.raised THEN [outcome |-> "TypeError", sections |-> <<>>]
         ELSE [outcome |-> "returned", sections |-> flat.sections]
    ELSE IF /\ output.kind = "array"
            /\ \A i \in 1..Len(output.items) : output.items[i].kind = "object"
         THEN [outcome |-> "returned",
               sections |-> [i \in 1..Len(output.items) |-> LegacySection(output.items[i])]]
         ELSE [outcome |-> "returned", sections |-> fallback_merge(source_outlines)]

OutlineIdle ==
    [pc |-> "idle", source_outlines |-> <<>>, output |-> [kind |-> "not_json",
     items |-> <<>>, plan |-> NoPlan], outcome |-> "none", sections |-> <<>>,
     calls |-> 0]

\* a call of the OutlineHarmonizer in which self.generate returns `output`
Forward(source_outlines, output) ==
    /\ orun.pc = "idle"
    /\ LET res == forward(source_outlines, output) IN
       orun' = [pc |-> "done", source_outlines |-> source_outlines,
                output |-> output, outcome |-> res.outcome,
                sections |-> res.sections, calls |-> 1]
    /\ modelCalls' = modelCalls + 1
    /\ UNCHANGED <<projects, targetNodes, suggestedSource, vectorQueries, grun,
                   genRuns, prun>>
    /\ UNCHANGED <<conceptCount, harmVars, ingestVars, auxVars>>

\* a section of the list the OutlineHarmonizer returns
PlannedSection == [key_concepts : SeqUpTo(KeyConcepts, MaxKeyConcepts)]

\* self.harmonizer(source_outlines): the section list, or the call raises
HarmonizerOutcomes ==
    [ok : {TRUE}, sections : SeqUpTo(PlannedSection, MaxSections)]
        \cup {[ok |-> FALSE, sections |-> <<>>]}

\* the SlideText objects a query can see: where_filter is built only from a
\* non-empty allowed_course_ids
IndexedSlides(allowed) ==
    {sl \in SlideIds : vectorCount[sl] > 0 /\ (allowed = {} \/ sl[1] \in allowed)}

\* what the vector index does with one near-text query: it raises, or it
\* ranks the visible slides whose certainty reaches the one asked for
Responses(allowed) ==
    {[ok |-> FALSE, ranked |-> <<>>]}
        \cup [ok : {TRUE}, ranked : DistinctSeqs(IndexedSlides(allowed))]

\* with_limit(limit) ... do(): the first hits of the ranking
Hits(response, limit) == FirstN(response.ranked, limit)

\* _find_matching_slides of generator_service.py: one query for the joined
\* key concepts; a failing query is logged and [] returned
find_matching_slides(key_concepts, allowed, answers) ==
    IF key_concepts = <<>> THEN [slides |-> <<>>, queries |-> 0]
    ELSE LET response == answers[key_concepts] IN
         IF ~response.ok THEN [slides |-> <<>>, queries |-> 1]
         ELSE [slides |->
                  FirstN(Hits(response, IF allowed # {} THEN top_n * 3 ELSE top_n),
                         top_n),
               queries |-> 1]

\* if sid not in unique_slides: unique_slides[sid] = {...}, over the hits
RECURSIVE AddHits(_, _, _, _)
AddHits(unique, hits, i, concept) ==
    IF i > Len(hits) THEN unique
    ELSE AddHits(
             IF \E k \in 1..Len(unique) : unique[k].slide_id = hits[i]
             THEN unique
             ELSE Append(unique, [slide_id |-> hits[i], match_reason |-> concept]),
             hits, i + 1, concept)

\* for concept in priority_concepts: one query each, a failing one skipped
RECURSIVE IterateConcepts(_, _, _, _)
IterateConcepts(priority, i, answers, unique) ==
    IF i > Len(priority) THEN unique
    ELSE LET response == answers[<<priority[i]>>]
             hits == IF response.ok THEN Hits(response, HITS_PER_CONCEPT) ELSE <<>>
         IN IterateConcepts(priority, i + 1, answers,
                            AddHits(unique, hits, 1, priority[i]))

\* _find_matching_slides_iterative of the refactored service
find_matching_slides_every_concept(key_concepts, answers) ==
    [slides |-> FirstN(IterateConcepts(key_concepts, 1, answers, <<>>),
                       SLIDES_PER_SECTION),
     queries |-> Len(key_concepts)]
find_matching_slides_iterative(key_concepts, answers) ==
    IF key_concepts = <<>> THEN [slides |-> <<>>, queries |-> 0]
    ELSE LET priority == FirstN(key_concepts, PRIORITY_CONCEPTS)
         IN [slides |-> FirstN(IterateConcepts(priority, 1, answers, <<>>),
                               SLIDES_PER_SECTION),
             queries |-> Len(priority)]

MatchIdle ==
    [pc |-> "idle", key_concepts |-> <<>>, allowed |-> {}, answers |-> <<>>,
     slides |-> <<>>, queries |-> 0]

\* a call of _find_matching_slides_iterative(key_concepts, allowed_course_ids)
\* in which the vector index answers the query of concept c with answers[<<c>>]
FindMatching(key_concepts, allowed, answers) ==
    /\ matched.pc = "idle"
    /\ LET res == find_matching_slides_iterative(key_concepts, answers) IN
       matched' = [pc |-> "done", key_concepts |-> key_concepts, allowed |-> allowed,
                 answers |-> answers, slides |-> res.slides, queries |-> res.queries]
    /\ UNCHANGED <<conceptCount, harmVars, ingestVars, genVars>>
    /\ UNCHANGED <<grouped, fetched, sensor>>

\* the queries a run over the plan can issue
QueriesOf(plan) ==
    {plan.sections[i].key_concepts : i \in 1..Len(plan.sections)} \ {<<>>}
QueriesOfCopy(plan) ==
    UNION {{<<c>> : c \in Range(FirstN(plan.sections[i].key_concepts,
                                        PRIORITY_CONCEPTS))} :
              i \in 1..Len(plan.sections)}

\* _fetch_all_slides_for_courses
fetch_all_slides_for_courses(course_ids) ==
    {sl \in SlideIds : \E c \in course_ids :
        c \in courseNodes /\ <<CourseNode(c), sl>> \in hasSlide}

\* the rows of a query in the order the store returns them
SlideSeq(S) == CHOOSE q \in DistinctSeqs(S) : Len(q) = Cardinality(S)

\* the graph statements of _persist_project for project_id, in order: CREATE
\* the Project, then per section CREATE the TargetNode with order i and one
\* CREATE of a SUGGESTED_SOURCE edge per suggested slide
RECURSIVE EdgeStatements(_, _, _, _)
EdgeStatements(project_id, order, slides, k) ==
    IF k > Len(slides) THEN <<>>
    ELSE <<[kind |-> "edge", project |-> project_id, order |-> order,
            slide |-> slides[k], is_unassigned |-> "absent"]>>
         \o EdgeStatements(project_id, order, slides, k + 1)

RECURSIVE PersistStatements(_, _, _)
PersistStatements(project_id, sections, i) ==
    IF i > Len(sections) THEN <<>>
    ELSE <<[kind |-> "target", project |-> project_id, order |-> i - 1,
            slide |-> <<NoValue, 0>>, is_unassigned |-> sections[i].is_unassigned]>>
         \o EdgeStatements(project_id, i - 1, sections[i].suggested_slides, 1)
         \o PersistStatements(project_id, sections, i + 1)

persist_project(project_id, sections) ==
    <<[kind |-> "project", project |-> project_id, order |-> 0,
       slide |-> <<NoValue, 0>>, is_unassigned |-> "absent"]>>
    \o PersistStatements(project_id, sections, 1)

Raised(error, calls, queries) ==
    [outcome |-> error, sections |-> <<>>, calls |-> calls, queries |-> queries,
     statements |-> <<>>]

SumQueries(found) ==
    LET RECURSIVE Sum(_)
        Sum(i) == IF i > Len(found) THEN 0 ELSE found[i].queries + Sum(i + 1)
    IN Sum(1)

\* source_outlines, source_course_ids = self._fetch_source_outlines(...): the
\* unpacking raises ValueError unless the tuple has as many items as targets
UnpackFails(ret, targets) == Len(ret) # targets

\* if not source_outlines
NoSourceOutlinesNever(source_outlines) == FALSE
NoSourceOutlines(source_outlines) == source_outlines = <<>>

\* generate_skeleton of generator_service.py, from the fetched tuple on
generate_skeleton(ret, plan, answers, project_id) ==
    IF UnpackFails(ret, 2) THEN Raised("ValueError", 0, 0)
    ELSE IF NoSourceOutlines(ret[1]) THEN Raised("ValueError", 0, 0)
    ELSE IF ~plan.ok THEN Raised("ModelError", 1, 0)
    ELSE LET found == [i \in 1..Len(plan.sections) |->
                          find_matching_slides(plan.sections[i].key_concepts,
                                               ret[2], answers)]
             enriched_sections ==
                 [i \in 1..Len(plan.sections) |->
                     [key_concepts |-> plan.sections[i].key_concepts,
                      gap |-> FALSE,
                      suggested_slides |-> found[i].slides,
                      queries |-> found[i].queries,
                      is_unassigned |-> "absent"]]
         IN [outcome |-> "returned", sections |-> enriched_sections, calls |-> 1,
             queries |-> SumQueries(found),
             statements |-> persist_project(project_id, enriched_sections)]

\* matching_concepts = [c for c in key_concepts if c in known_source_concepts]:
\* no statement of the module binds known_source_concepts, so the filter
\* raises NameError for the first key concept it is evaluated for
MatchingConceptsRaises(key_concepts) == key_concepts # <<>>

\* generate_skeleton of the refactored service, from the fetched tuple on
\* (master_course_id left at None)
generate_skeleton_copy(ret, plan, answers, project_id) ==
    IF UnpackFails(ret, 2) THEN Raised("ValueError", 0, 0)
    ELSE IF NoSourceOutlines(ret[1]) THEN Raised("ValueError", 0, 0)
    ELSE IF ~plan.ok THEN Raised("ModelError", 1, 0)
    ELSE IF \E i \in 1..Len(plan.sections) :
               MatchingConceptsRaises(plan.sections[i].key_concepts)
    THEN Raised("NameError", 1, 0)
    ELSE LET found == [i \in 1..Len(plan.sections) |->
                          find_matching_slides_iterative(
                              plan.sections[i].key_concepts, answers)]
             enriched == [i \in 1..Len(plan.sections) |->
                             [key_concepts |-> plan.sections[i].key_concepts,
                              gap |-> FALSE,
                              suggested_slides |->
                                  [k \in 1..Len(found[i].slides) |->
                                      found[i].slides[k].slide_id],
                              queries |-> found[i].queries,
                              is_unassigned |-> "false"]]
             assigned_slide_ids ==
                 UNION {Range(enriched[i].suggested_slides) : i \in 1..Len(enriched)}
             unassigned_ids ==
                 fetch_all_slides_for_courses(ret[2]) \ assigned_slide_ids
             enriched_sections ==
                 IF unassigned_ids = {} THEN enriched
                 ELSE Append(enriched,
                             [key_concepts |-> <<>>, gap |-> FALSE,
                              suggested_slides |-> SlideSeq(unassigned_ids),
                              queries |-> 0, is_unassigned |-> "true"])
         IN [outcome |-> "returned", sections |-> enriched_sections, calls |-> 1,
             queries |-> SumQueries(found),
             statements |-> persist_project(project_id, enriched_sections)]

GenIdle ==
    [version |-> "none", selected |-> {}, units |-> 0, course_ids |-> {},
     known |-> {}, plan |-> [ok |-> FALSE, sections |-> <<>>], answers |-> <<>>,
     outcome |-> "none", sections |-> <<>>, project_id |-> 0]

\* the callers that can be inside generate_skeleton at the same time
PersistRunners == {"g1", "g2"}

\* created_targets, created_edges: what the statements of the call have created
PersistIdle ==
    [pc |-> "idle", project_id |-> 0, sections |-> <<>>, statements |-> <<>>,
     pos |-> 1, created_targets |-> {}, created_edges |-> {}, from_call |-> FALSE]

\* _persist_project is entered with the enriched sections
PersistEntered(project_id, sections, statements, from_call) ==
    [pc |-> "persist", project_id |-> project_id, sections |-> sections,
     statements |-> statements, pos |-> 1, created_targets |-> {},
     created_edges |-> {}, from_call |-> from_call]

\* what one statement of _persist_project creates: CREATE (p:Project); MATCH
\* the Project, CREATE the TargetNode and its HAS_CHILD edge; MATCH the
\* TargetNode and the Slide, CREATE the SUGGESTED_SOURCE edge
TargetOf(st) ==
    [project |-> st.project, order |-> st.order, is_unassigned |-> st.is_unassigned]

CreatedTargets(st) ==
    IF st.kind = "target" /\ st.project \in projects THEN {TargetOf(st)} ELSE {}

CreatedEdges(st) ==
    IF /\ st.kind = "edge"
       /\ \E t \in targetNodes : t.project = st.project /\ t.order = st.order
       /\ slideCount[st.slide] > 0
    THEN {<<st.project, st.order, st.slide>>}
    ELSE {}

\* str(uuid.uuid4()): an id that no earlier call has produced
uuid4ByCount == Cardinality(projects) + 1
uuid4 == genRuns + 1

\* the call hands its enriched sections to _persist_project, or has raised
Handed(version, selected, ret, known, plan, answers, res) ==
    /\ modelCalls' = modelCalls + res.calls
    /\ vectorQueries' = vectorQueries + res.queries
    /\ prun' = [prun EXCEPT !["g1"] =
                  IF res.statements = <<>> THEN PersistIdle
                  ELSE PersistEntered(uuid4, res.sections, res.statements, TRUE)]
    /\ grun' = [version |-> version, selected |-> selected,
                units |-> Len(ret[1]), course_ids |-> ret[2], known |-> known,
                plan |-> plan, answers |-> answers,
                outcome |-> IF res.statements = <<>> THEN res.outcome ELSE "persisting",
                sections |-> <<>>, project_id |-> 0]
    /\ genRuns' = genRuns + 1
    /\ UNCHANGED <<projects, targetNodes, suggestedSource, orun>>

\* a call of generate_skeleton of generator_service.py, up to _persist_project
GenerateSkeleton(selected) ==
    /\ genRuns < MaxGenRuns
    /\ prun["g1"].pc # "persist"
    /\ \E ret \in fetch_source_outlines(selected), plan \in HarmonizerOutcomes :
         \E answers \in [QueriesOf(plan) -> Responses(ret[2])] :
            Handed("plain", selected, ret, {}, plan, answers,
                   generate_skeleton(ret, plan, answers, uuid4))
    /\ UNCHANGED <<conceptCount, harmVars, ingestVars, auxVars>>

\* a call of generate_skeleton of the refactored service, up to _persist_project
GenerateSkeletonCopy(selected) ==
    /\ genRuns < MaxGenRuns
    /\ prun["g1"].pc # "persist"
    /\ \E ret \in fetch_source_outlines_copy(selected), plan \in HarmonizerOutcomes :
         \E answers \in [QueriesOfCopy(plan) -> Responses(ret[2])] :
            Handed("copy", selected, ret, ret[3], plan, answers,
                   generate_skeleton_copy(ret, plan, answers, uuid4))
    /\ UNCHANGED <<conceptCount, harmVars, ingestVars, auxVars>>

\* a caller reaches self._persist_project(enriched_sections) with `sections`
PersistProject(r, sections) ==
    /\ genRuns < MaxPersistRuns
    /\ prun[r].pc # "persist"
    /\ prun' = [prun EXCEPT ![r] =
                  PersistEntered(uuid4, sections, persist_project(uuid4, sections),
                                 FALSE)]
    /\ genRuns' = genRuns + 1
    /\ UNCHANGED <<projects, targetNodes, suggestedSource, modelCalls,
                   vectorQueries, grun, orun>>
    /\ UNCHANGED <<conceptCount, harmVars, ingestVars, auxVars>>

\* return project_id, then generate_skeleton returns {'project_id', 'sections'}
Returns(run) ==
    [grun EXCEPT !.outcome = "returned", !.sections = run.sections,
                 !.project_id = run.project_id]

\* the next execute_query of _persist_project runs and commits
PersistStatement(r) ==
    /\ prun[r].pc = "persist"
    /\ LET run == prun[r]
           st == run.statements[run.pos]
           last == run.pos = Len(run.statements)
           next == [run EXCEPT !.pos = @ + 1,
                               !.created_targets = @ \cup CreatedTargets(st),
                               !.created_edges = @ \cup CreatedEdges(st),
                               !.pc = IF last THEN "done" ELSE "persist"]
       IN /\ projects' = IF st.kind = "project" THEN projects \cup {st.project}
                         ELSE projects
          /\ targetNodes' = targetNodes \cup CreatedTargets(st)
          /\ suggestedSource' = suggestedSource \cup CreatedEdges(st)
          /\ prun' = [prun EXCEPT ![r] = next]
          /\ grun' = IF last /\ run.from_call THEN Returns(next) ELSE grun
    /\ UNCHANGED <<modelCalls, vectorQueries, genRuns, orun>>
    /\ UNCHANGED <<conceptCount, harmVars, ingestVars, auxVars>>

\* the next execute_query raises: neither _persist_project nor generate_skeleton
\* has a handler, so the error reaches the caller
PersistFailsHandled(r) ==
    /\ prun[r].pc = "persist"
    /\ prun' = [prun EXCEPT ![r].pc = "raised"]
    /\ grun' = IF prun[r].from_call THEN Returns(prun[r]) ELSE grun
    /\ UNCHANGED <<projects, targetNodes, suggestedSource, modelCalls,
                   vectorQueries, genRuns, orun>>
    /\ UNCHANGED <<conceptCount, harmVars, ingestVars, auxVars>>
PersistFails(r) ==
    /\ prun[r].pc = "persist"
    /\ prun' = [prun EXCEPT ![r].pc = "raised"]
    /\ grun' = IF prun[r].from_call THEN [grun EXCEPT !.outcome = "PersistError"]
               ELSE grun
    /\ UNCHANGED <<projects, targetNodes, suggestedSource, modelCalls,
                   vectorQueries, genRuns, orun>>
    /\ UNCHANGED <<conceptCount, harmVars, ingestVars, auxVars>>

GenIdleInit ==
    /\ projects = {}
    /\ targetNodes = {}
    /\ suggestedSource = {}
    /\ modelCalls = 0
    /\ vectorQueries = 0
    /\ grun = GenIdle
    /\ genRuns = 0
    /\ prun = [r \in PersistRunners |-> PersistIdle]
    /\ orun = OutlineIdle

(***************************************************************************)
(* Upload sensor: src/ingestion/sensors.py                                 *)
(***************************************************************************)

\* the object names the bucket can hold, each as the parts obj_name.split('/')
\* gives, listed in the order sorted(objects, key=object_name) puts the names
\* in ("A/a.pdf" < "A/generated/x.png" < "A/metadata.json" < "A/sub/deep.pdf"
\* < "A/z.pdf" < "B/b.pdf" < ...)
ObjectNames ==
    << <<"A", "a.pdf">>, <<"A", "generated", "x.png">>, <<"A", "metadata.json">>,
       <<"A", "sub", "deep.pdf">>, <<"A", "z.pdf">>, <<"B", "b.pdf">>,
       <<"B", "c.pdf">>, <<"B", "d.pdf">>, <<"B", "e.pdf">> >>

NoCursor == <<>>

\* position of a name in the string order; the empty cursor "" is below all
ObjectRank(name) ==
    IF name = NoCursor THEN 0
    ELSE CHOOSE i \in 1..Len(ObjectNames) : ObjectNames[i] = name

\* "/generated/" in obj_name
InGenerated(name) == \E i \in 2..(Len(name) - 1) : name[i] = "generated"

\* obj_name.endswith("/metadata.json")
IsMetadata(name) == Len(name) >= 2 /\ name[Len(name)] = "metadata.json"

\* if len(run_requests) >= 5: break
BatchLimit == 5

\* the loop over sorted_objects from position i on: run_requests so far and
\* new_cursor; gives the two when the loop ends or breaks
RECURSIVE ScanObjects(_, _, _, _, _)
ScanObjects(bucket, last_processed_object, i, run_requests, new_cursor) ==
    IF i > Len(ObjectNames)
    THEN [run_requests |-> run_requests, new_cursor |-> new_cursor]
    ELSE LET obj_name == ObjectNames[i] IN
         IF \/ obj_name \notin bucket
            \/ InGenerated(obj_name)
            \/ IsMetadata(obj_name)
            \/ ObjectRank(obj_name) <= ObjectRank(last_processed_object)
            \/ Len(obj_name) # 2
         THEN ScanObjects(bucket, last_processed_object, i + 1, run_requests,
                          new_cursor)
         ELSE LET reqs == Append(run_requests, obj_name) IN
              IF Len(reqs) >= BatchLimit
              THEN [run_requests |-> reqs, new_cursor |-> obj_name]
              ELSE ScanObjects(bucket, last_processed_object, i + 1, reqs, obj_name)

SensorIdle ==
    [bucket |-> {}, cursor |-> NoCursor, run_requests |-> <<>>,
     ticks |-> [i \in 1..Len(ObjectNames) |-> 0]]

\* a file is put into the bucket under a name it does not hold yet
Upload(name) ==
    /\ name \notin sensor.bucket
    /\ sensor' = [sensor EXCEPT !.bucket = @ \cup {name}]
    /\ UNCHANGED <<grouped, fetched, matched>>
    /\ UNCHANGED <<conceptCount, harmVars, ingestVars, genVars>>

\* one evaluation of course_upload_sensor: the run requests it returns and
\* the cursor it stores; ticks counts, per name, the evaluations that
\* returned a run request for it (counted up to 2)
Tick ==
    /\ LET scan == ScanObjects(sensor.bucket, sensor.cursor, 1, <<>>, sensor.cursor)
           asked == {scan.run_requests[i] : i \in 1..Len(scan.run_requests)}
       IN sensor' = [sensor EXCEPT
                       !.cursor = scan.new_cursor,
                       !.run_requests = scan.run_requests,
                       !.ticks = [i \in 1..Len(ObjectNames) |->
                                     IF ObjectNames[i] \in asked /\ @[i] < 2
                                     THEN @[i] + 1 ELSE @[i]]]
    /\ UNCHANGED <<grouped, fetched, matched>>
    /\ UNCHANGED <<conceptCount, harmVars, ingestVars, genVars>>

AuxIdleInit ==
    /\ sensor = SensorIdle
    /\ matched = MatchIdle
    /\ fetched = FetchIdle
    /\ grouped = GroupIdle

GraphInit ==
    /\ courseNodes = {}
    /\ sectionNodes = {}
    /\ slideCount = [sl \in SlideIds |-> 0]
    /\ hasSlide = {}
    /\ teaches = {}
    /\ salience = [e \in SlideIds \X ConceptNames |-> 0]
    /\ conceptSummary = [sec \in SectionIds |-> NoSummary]
    /\ vectorCount = [sl \in SlideIds |-> 0]
    /\ irun = IngestIdle
    /\ ingestRuns = 0
    /\ lastElements = [c \in CourseIds |-> <<FALSE, <<>>>>]
    /\ lastOutline = [c \in CourseIds |-> "never"]
    /\ lastExtract = [sl \in SlideIds |-> [state |-> "never", names |-> {}]]
    /\ returned = [e \in SlideIds \X ConceptNames |-> [given |-> FALSE, value |-> 0]]

HarmIdleInit ==
    /\ canonCount = [k \in CanonNames |-> 0]
    /\ canonDesc = [k \in CanonNames |-> NoValue]
    /\ alignsTo = [p \in ConceptNames \X CanonNames |-> 0]
    /\ hrun = [r \in HarmRunners |-> HarmIdle]
    /\ clusterCalls = 0
    /\ harmRuns = 0
    /\ happlied = {}

\* the text elements of the ingestion runs: a blank one with page 1 given and
\* a long one without a page number
IngestElements ==
    {el \in ElementSet :
        /\ el.page = 1
        /\ el.has_page => (el.len = 700 /\ el.blank)
        /\ ~el.has_page => (el.len = 1600 /\ ~el.blank)}

IngestCourses == {"A"}

IngestNext ==
    \/ \E c \in IngestCourses, elements \in SeqUpTo(IngestElements, MaxElements) :
          IngestStart(c, elements)
    \/ \E outline \in ExtractedOutlines : OutlineCreated(outline)
    \/ OutlineFails
    \/ \E concepts \in SeqUpTo(ReturnedConcept, MaxConceptsPerSlide) :
          ExtractLinked(concepts)
    \/ ExtractFails
    \/ IndexAdded
    \/ IndexFails
    \/ AggregateSections
    \/ AggregateFails

IngestInit ==
    /\ conceptCount = [n \in ConceptNames |-> 0]
    /\ GraphInit
    /\ HarmIdleInit
    /\ GenIdleInit
    /\ AuxIdleInit

SpecIngest == IngestInit /\ [][IngestNext]_vars

(***************************************************************************)
(* Specification of the grouping loop of build_knowledge_graph over the    *)
(* text elements of one text.json                                          *)
(***************************************************************************)
\* text lengths around the chunk limit; an element of length 0 is blank, and
\* an element without page_number has no page
GroupLens == {0, 100, 1500, 1600, 3200}
GroupElements ==
    {el \in [has_page : BOOLEAN, page : 1..MaxPage, len : GroupLens, blank : BOOLEAN] :
        /\ ~el.has_page => el.page = 1
        /\ el.blank <=> el.len = 0}

GroupNext ==
    \E elements \in SeqUpTo(GroupElements, MaxGroupElements) : Group(elements)

SpecGroup == IngestInit /\ [][GroupNext]_vars

(***************************************************************************)
(* Specification of the Harmonizer: runs one after the other over a graph  *)
(* whose Concept nodes ingestion has left                                  *)
(***************************************************************************)
HarmInit ==
    /\ conceptCount \in [ConceptNames -> {0, 1}]
    /\ GraphInit
    /\ HarmIdleInit
    /\ GenIdleInit
    /\ AuxIdleInit

SpecHarm == HarmInit /\ [][HarmNext]_vars

\* concurrent Harmonizer runs over the same graph
SpecHarmPar == HarmInit /\ [][HarmParNext]_vars

(***************************************************************************)
(* Specification of the generator: calls of generate_skeleton over a graph *)
(* and an index that earlier ingestion runs have left                      *)
(***************************************************************************)
\* how the latest build_knowledge_graph run of a course went: never run; the
\* outline step failed (no Course, so no Slide); or the outline was created.
\* The course has one page group, whose extraction returned `taught` and
\* whose add_object succeeded or not.
TaughtLists ==
    {<<>>} \cup {<<[name |-> "x", has_salience |-> TRUE, salience |-> s]>> : s \in {3, 9}}

CourseShapes ==
    {[state |-> "absent", outline |-> {}, taught |-> <<>>, indexed |-> FALSE]}
        \cup [state : {"failed"}, outline : {{}}, taught : TaughtLists,
              indexed : BOOLEAN]
        \cup [state : {"created"}, outline : ExtractedOutlines, taught : TaughtLists,
              indexed : BOOLEAN]

SecondCourseShapes ==
    {sh \in CourseShapes :
        \/ sh.state = "absent"
        \/ sh.outline = {} /\ sh.indexed /\ Len(sh.taught) = 1 /\ sh.taught[1].salience = 9}

EmptyGraph ==
    [slideCount |-> [sl \in SlideIds |-> 0], hasSlide |-> {},
     conceptCount |-> [n \in ConceptNames |-> 0], teaches |-> {},
     salience |-> [e \in SlideIds \X ConceptNames |-> 0],
     vectorCount |-> [sl \in SlideIds |-> 0]]

\* the page loop of build_knowledge_graph for the one page group of course c
Ingested(g, c, shape) ==
    IF shape.state = "absent" THEN g
    ELSE LET sid == <<c, 1>>
             g1 == CreateSlide(g, shape.state = "created", c, sid)
             g2 == LinkConcepts(g1, sid, shape.taught, 1)
         IN IF shape.indexed THEN [g2 EXCEPT !.vectorCount[sid] = @ + 1] ELSE g2

GenInit ==
    /\ \E shapeA \in CourseShapes, shapeB \in SecondCourseShapes :
         LET shape == [c \in CourseIds |-> IF c = "A" THEN shapeA ELSE shapeB]
             g == Ingested(Ingested(EmptyGraph, "A", shapeA), "B", shapeB)
         IN /\ courseNodes = {c \in CourseIds : shape[c].state = "created"}
            /\ sectionNodes =
                   UNION {{<<c, p>> : p \in shape[c].outline} :
                             c \in {d \in CourseIds : shape[d].state = "created"}}
            /\ slideCount = g.slideCount
            /\ hasSlide = g.hasSlide
            /\ conceptCount = g.conceptCount
            /\ teaches = g.teaches
            /\ salience = g.salience
            /\ vectorCount = g.vectorCount
            /\ lastOutline = [c \in CourseIds |->
                                 IF shape[c].state = "absent" THEN "never"
                                 ELSE shape[c].state]
    /\ conceptSummary = [sec \in SectionIds |-> NoSummary]
    /\ irun = IngestIdle
    /\ ingestRuns = 0
    /\ lastElements = [c \in CourseIds |-> <<FALSE, <<>>>>]
    /\ lastExtract = [sl \in SlideIds |-> [state |-> "never", names |-> {}]]
    /\ returned = [e \in SlideIds \X ConceptNames |-> [given |-> FALSE, value |-> 0]]
    /\ HarmIdleInit
    /\ GenIdleInit
    /\ AuxIdleInit

Selections ==
    {{}, {CourseNode("A")}, {CourseNode("B")}, {CourseNode("A"), CourseNode("B")},
     {<<"A", <<0>>>>}}

GenNext ==
    \/ \E selected \in Selections : GenerateSkeleton(selected)
    \/ \E selected \in Selections : GenerateSkeletonCopy(selected)
    \/ \E r \in PersistRunners : PersistStatement(r)
    \/ \E r \in PersistRunners : PersistFails(r)

SpecGen == GenInit /\ [][GenNext]_vars

(***************************************************************************)
(* Specification of iterative retrieval: one call of                       *)
(* _find_matching_slides_iterative over an index that holds every slide of *)
(* two ingested courses                                                    *)
(***************************************************************************)
RetrieveConcepts == {"k1", "k2", "k3", "k4", "k5", "k6"}

\* key_concepts of a section: none, one, three with a repeated name, six
RetrieveKeyLists ==
    {<<>>, <<"k1">>, <<"k1", "k2", "k1">>, <<"k1", "k2", "k3", "k4", "k5", "k6">>}

\* the rankings the index gives to a query, best hit first
RetrieveRankings ==
    {<<<<"A", 1>>, <<"A", 2>>>>, <<<<"A", 2>>, <<"A", 3>>, <<"A", 4>>>>,
     <<<<"B", 1>>, <<"B", 2>>>>, <<<<"B", 3>>, <<"B", 4>>>>,
     <<<<"A", 4>>, <<"B", 1>>>>}

\* a query raises, or answers with a ranking of slides that pass where_filter
RetrieveResponses(allowed) ==
    {[ok |-> FALSE, ranked |-> <<>>]}
        \cup {[ok |-> TRUE, ranked |-> ranked] :
                 ranked \in {r \in RetrieveRankings :
                                \A i \in 1..Len(r) : r[i] \in IndexedSlides(allowed)}}

RetrieveAllowed == {{"A"}, {"A", "B"}}

\* PendingAllowed: the calls that can still be made
PendingAllowed == IF matched.pc = "idle" THEN RetrieveAllowed ELSE {}

RetrieveNext ==
    \E allowed \in PendingAllowed, key_concepts \in RetrieveKeyLists :
        \E answers \in [{<<c>> : c \in RetrieveConcepts} -> RetrieveResponses(allowed)] :
            FindMatching(key_concepts, allowed, answers)

RetrieveInit ==
    /\ conceptCount = [n \in ConceptNames |-> 0]
    /\ courseNodes = CourseIds
    /\ sectionNodes = {}
    /\ slideCount = [sl \in SlideIds |-> 1]
    /\ hasSlide = {<<CourseNode(sl[1]), sl>> : sl \in SlideIds}
    /\ teaches = {}
    /\ salience = [e \in SlideIds \X ConceptNames |-> 0]
    /\ conceptSummary = [sec \in SectionIds |-> NoSummary]
    /\ vectorCount = [sl \in SlideIds |-> 1]
    /\ irun = IngestIdle
    /\ ingestRuns = 0
    /\ lastElements = [c \in CourseIds |-> <<FALSE, <<>>>>]
    /\ lastOutline = [c \in CourseIds |-> "created"]
    /\ lastExtract = [sl \in SlideIds |-> [state |-> "never", names |-> {}]]
    /\ returned = [e \in SlideIds \X ConceptNames |-> [given |-> FALSE, value |-> 0]]
    /\ HarmIdleInit
    /\ GenIdleInit
    /\ AuxIdleInit

SpecRetrieve == RetrieveInit /\ [][RetrieveNext]_vars

(***************************************************************************)
(* Specification of FetchOutlines: one _fetch_source_outlines call over a  *)
(* graph that earlier ingestion runs have left                             *)
(***************************************************************************)
FetchNext ==
    \E selected \in Selections :
        \E ret \in fetch_source_outlines_copy(selected) : FetchOutlines(selected, ret)

SpecFetch == GenInit /\ [][FetchNext]_vars

(***************************************************************************)
(* Specification of the OutlineHarmonizer: one forward call per behaviour  *)
(***************************************************************************)
\* the outputs the model can give to a harmonizer that has not been called yet
PendingOutputs == IF orun.pc = "idle" THEN ModelOutputs ELSE {}

OutlineNext ==
    \E source_outlines \in SourceOutlineLists, output \in PendingOutputs :
        Forward(source_outlines, output)

SpecOutline == IngestInit /\ [][OutlineNext]_vars

(***************************************************************************)
(* Specification of project persistence: two callers of generate_skeleton  *)
(* that have reached _persist_project, their statements interleaved        *)
(***************************************************************************)
\* the enriched sections handed over: with or without one suggested slide
PersistSections ==
    SeqUpTo([key_concepts : {<<>>}, gap : {FALSE},
             suggested_slides : {<<>>, <<<<"A", 1>>>>}, queries : {0},
             is_unassigned : {"false"}], MaxSections)

PersistNext ==
    \/ \E r \in PersistRunners, sections \in PersistSections :
          PersistProject(r, sections)
    \/ \E r \in PersistRunners : PersistStatement(r)
    \/ \E r \in PersistRunners : PersistFails(r)

PersistInit == GenInit /\ lastOutline["B"] = "never"

SpecPersist == PersistInit /\ [][PersistNext]_vars

(***************************************************************************)
(* Claims                                                                  *)
(***************************************************************************)

\* a call of the refactored generate_skeleton over at least one source unit
\* in which the skeleton model answers with a section list
CopyRunOverSources ==
    grun.version = "copy" /\ grun.units > 0 /\ grun.plan.ok

\* the positions, in a section's slide list, that hold the slide
Occurrences(section, sl) ==
    {k \in 1..Len(section.suggested_slides) : section.suggested_slides[k] = sl}

\* C1: in a run of the refactored generate_skeleton over at least one source
\* unit, every generated section whose key_concepts is non-empty and shares no
\* name with the known-concepts set comes back enriched with an empty
\* suggested_slides list and the gap annotation on its rationale, and no
\* vector query was issued for it.
C1_GapSectionIsAnnotated ==
    \A i \in 1..Len(grun.plan.sections) :
        LET key_concepts == grun.plan.sections[i].key_concepts IN
        (/\ CopyRunOverSources
         /\ key_concepts # <<>>
         /\ Range(key_concepts) \cap grun.known = {})
            => /\ grun.outcome = "returned"
               /\ grun.sections[i].suggested_slides = <<>>
               /\ grun.sections[i].gap
               /\ grun.sections[i].queries = 0

\* C2: in a run of the refactored generate_skeleton, for every generated
\* section with a key concept in the known-concepts set and every slide the
\* index ranks above the threshold for that concept within the source course
\* ids, the enriched section's suggested_slides contains that slide.
C2_GroundedSlideIsSuggested ==
    \A i \in 1..Len(grun.plan.sections) :
        \A c \in Range(grun.plan.sections[i].key_concepts) \cap grun.known :
            \A sl \in IndexedSlides(grun.course_ids) :
                (/\ CopyRunOverSources
                 /\ grun.answers[<<c>>].ok
                 /\ sl \in Range(grun.answers[<<c>>].ranked))
                    => /\ grun.outcome = "returned"
                       /\ sl \in Range(grun.sections[i].suggested_slides)

TargetNodesOf(project_id) == {t \in targetNodes : t.project = project_id}

C5_ApplyTwiceAddsNothing ==
    [][\A r \in HarmRunners :
          (hrun[r].pc = "apply" /\ hrun[r].again /\ hrun'[r] # hrun[r])
              => (canonCount' = canonCount /\ alignsTo' = alignsTo)]_vars

\* C5 witness: a second run over an already applied list with a source that
\* is a Concept of the graph has returned, and the edge is there.
C5_Witness ==
    \E r \in HarmRunners :
        /\ hrun[r].pc = "done"
        /\ hrun[r].again
        /\ \E i \in 1..Len(hrun[r].clusters) :
              LET cl == hrun[r].clusters[i] IN
              \E j \in 1..Len(cl.source_concepts) :
                  alignsTo[<<cl.source_concepts[j], cl.canonical_name>>] = 1

\* C6: every Concept node has at most one outgoing ALIGNS_TO edge.
C6_AtMostOneCanonicalTarget ==
    \A c \in ConceptNames :
        \A k1, k2 \in CanonNames :
            (alignsTo[<<c, k1>>] > 0 /\ alignsTo[<<c, k2>>] > 0)
                => (k1 = k2 /\ alignsTo[<<c, k1>>] = 1)

SlideNodeIds == {sl \in SlideIds : slideCount[sl] > 0}
ConceptNodeNames == {n \in ConceptNames : conceptCount[n] > 0}

\* the salience an edge should carry for what extract_concepts last returned
ReturnedSalience(e) ==
    IF returned[e].given THEN returned[e].value ELSE DefaultSalience

\* C7: a run over the same text elements as the course's previous run, in
\* which extract_concepts returns for every slide the concept names it
\* returned in that run, ends with the Slide nodes and the Concept nodes it
\* started with, one node per slide id and per concept name, and every
\* TEACHES edge carries the salience last returned for it.
C7_ReingestLeavesSameNodes ==
    (irun.pc = "done" /\ irun.sameElements /\ irun.sameConcepts)
        => /\ SlideNodeIds = irun.slidesBefore
           /\ ConceptNodeNames = irun.conceptsBefore
           /\ \A sl \in SlideIds : slideCount[sl] <= 1
           /\ \A n \in ConceptNames : conceptCount[n] <= 1
           /\ \A e \in teaches : salience[e] = ReturnedSalience(e)

\* ascending concept names
NameOrder == <<"x", "y">>
NameRank(n) == CHOOSE i \in 1..Len(NameOrder) : NameOrder[i] = n

\* the Sections below sec, sec included, and the slides they hold
SubtreeSlides(sec) ==
    {sl \in SlideIds : \E ch \in Descendants(sectionNodes, sec) : <<ch, sl>> \in hasSlide}

SubtreeSum(sec, n) ==
    SumSalience({e \in teaches : e[1] \in SubtreeSlides(sec) /\ e[2] = n}, salience)

SubtreeNames(sec) ==
    {n \in ConceptNames : \E sl \in SubtreeSlides(sec) : <<sl, n>> \in teaches}

Ranked(sec, a, b) ==
    \/ SubtreeSum(sec, a) > SubtreeSum(sec, b)
    \/ SubtreeSum(sec, a) = SubtreeSum(sec, b) /\ NameRank(a) < NameRank(b)

\* the lists the claim allows for sec: the first 5 names in rank order
TopFive(sec) ==
    LET names == SubtreeNames(sec)
        k == IF Cardinality(names) < SummarySize THEN Cardinality(names)
             ELSE SummarySize
    IN {q \in [1..k -> names] :
          /\ \A i, j \in 1..k : i < j => Ranked(sec, q[i], q[j])
          /\ \A n \in names : (\A i \in 1..k : q[i] # n) =>
                \A i \in 1..k : Ranked(sec, q[i], n)}

\* C8: once the aggregation pass of a run has completed, every Section under
\* the run's Course, at any depth, has as concept_summary the at most 5 names
\* taught in its subtree, by descending summed salience, then ascending name.
C8_SummaryIsTopFive ==
    (irun.pc = "done" /\ irun.aggregated)
        => \A sec \in sectionNodes :
              sec[1] = irun.course => conceptSummary[sec] \in TopFive(sec)

\* C9: every TEACHES edge has a salience within [0,1] whatever value
\* extract_concepts returned for the concept, and 0.5 when it returned none.
C9_SalienceInUnitRange ==
    \A e \in teaches :
        /\ salience[e] >= 0
        /\ salience[e] <= 10
        /\ ~returned[e].given => salience[e] = DefaultSalience

\* C10: a generate_skeleton call whose fetch yields zero source units raises,
\* and the call adds no call of the skeleton model, no vector query, no
\* Project, no TargetNode and no SUGGESTED_SOURCE edge.
C10_NoSourceDataAborts ==
    [][(genRuns' = genRuns + 1 /\ grun'.units = 0)
          => /\ grun'.outcome = "ValueError"
             /\ modelCalls' = modelCalls
             /\ vectorQueries' = vectorQueries
             /\ projects' = projects
             /\ targetNodes' = targetNodes
             /\ suggestedSource' = suggestedSource]_vars

\* C10 witness: generate_skeleton was called with a non-empty selection that
\* yields no source unit, while the model would have answered with sections
\* and the index holds a slide; the call raised.
C10_Witness ==
    /\ grun.version = "plain"
    /\ grun.selected # {}
    /\ grun.units = 0
    /\ grun.plan.ok /\ grun.plan.sections # <<>>
    /\ \E sl \in SlideIds : vectorCount[sl] > 0
    /\ grun.outcome = "ValueError"
    /\ projects = {}

\* the statements of a _persist_project call that ran before its position
Committed(run) == {run.statements[k] : k \in 1..(run.pos - 1)}

\* what a committed statement has left in the graph is there
InGraph(st) ==
    /\ st.kind = "project" => st.project \in projects
    /\ st.kind = "target" => TargetOf(st) \in targetNodes
    /\ (st.kind = "edge" /\ slideCount[st.slide] > 0)
          => <<st.project, st.order, st.slide>> \in suggestedSource

\* C11: when a statement of _persist_project fails, generate_skeleton raises
\* and returns neither a project id nor a section list, and the Project, the
\* TargetNodes and the edges written before the failing statement are still
\* in the graph.
C11_PersistFailureRaisesKeepsWrites ==
    \A r \in PersistRunners :
        prun[r].pc = "raised" =>
            /\ prun[r].from_call =>
                  /\ grun.outcome = "PersistError"
                  /\ grun.sections = <<>>
                  /\ grun.project_id = 0
            /\ \A st \in Committed(prun[r]) : InGraph(st)

\* C11 witness: a generate_skeleton call failed in _persist_project after the
\* Project, a TargetNode and a SUGGESTED_SOURCE edge were written; it raised
\* and the three are in the graph.
C11_Witness ==
    /\ prun["g1"].pc = "raised"
    /\ prun["g1"].from_call
    /\ prun["g1"].pos <= Len(prun["g1"].statements)
    /\ grun.outcome = "PersistError"
    /\ prun["g1"].project_id \in projects
    /\ \E e \in suggestedSource : e[1] = prun["g1"].project_id
    /\ \E t \in targetNodes : t.project = prun["g1"].project_id

\* an object that has the required fields title, rationale and key_concepts
CompleteObject(v) == v.kind = "object" /\ RequiredFields \subseteq v.fields

\* the output is a mapping whose values at template keys have the shape of
\* their module: one complete section, or for a list module a list of them
MappingParses(output) ==
    /\ output.kind = "mapping"
    /\ \A m \in 1..Len(TemplateModules) :
          LET value == output.plan[TemplateModules[m].key] IN
          \/ value.kind = "absent"
          \/ /\ TemplateModules[m].is_list
             /\ value.kind = "array"
             /\ \A i \in 1..Len(value.items) : CompleteObject(value.items[i])
          \/ ~TemplateModules[m].is_list /\ CompleteObject(value)

\* the output is a flat list of complete section objects
ListParses(output) ==
    /\ output.kind = "array"
    /\ \A i \in 1..Len(output.items) : CompleteObject(output.items[i])

\* C12: whenever the skeleton model's output is neither a mapping keyed by
\* template module keys nor a flat list of section objects, or a section
\* lacks a required field or has the wrong shape for its module, forward
\* returns the fallback set (one section per source outline unit, in input
\* order, titled from the unit, with its first 5 concepts) instead of
\* raising, and the model was called exactly once.
C12_MalformedOutputFallsBack ==
    (/\ orun.pc = "done"
     /\ ~MappingParses(orun.output)
     /\ ~ListParses(orun.output))
        => /\ orun.outcome = "returned"
           /\ orun.sections = fallback_merge(orun.source_outlines)
           /\ orun.calls = 1

\* C13: a failing write of one cluster does not abort the run: a run whose
\* clustering call returned clusters is never left raised, so every later
\* cluster of its list is still attempted and the caller gets a result.
C13_WriteFailureDoesNotAbort ==
    \A r \in HarmRunners :
        (hrun[r].call = "ok" /\ hrun[r].clusters # <<>>) => hrun[r].pc # "raised"

\* C14: a run whose clustering call fails raises and its steps write no
\* CanonicalConcept node and no ALIGNS_TO edge; a run started over a graph
\* without Concept names returns the empty list, makes no clustering call
\* and writes nothing.
C14_FailedCallOrNoConceptsWritesNothing ==
    [][\A r \in HarmRunners :
          (hrun'[r].pc # "idle" /\ (hrun'[r] # hrun[r] \/ harmRuns' # harmRuns))
              => /\ hrun'[r].call = "failed"
                    => (hrun'[r].pc = "raised" /\ CanonGraph' = CanonGraph)
                 /\ (harmRuns' # harmRuns /\ fetch_concepts = {})
                    => /\ hrun'[r].pc = "done"
                       /\ hrun'[r].clusters = <<>>
                       /\ hrun'[r].call = "none"
                       /\ clusterCalls' = clusterCalls
                       /\ CanonGraph' = CanonGraph]_vars

\* C14 witness: the clustering call of the second run failed; the run raised
\* and the CanonicalConcept node and edge of the first run are as it left them.
C14_Witness ==
    \E r \in HarmRunners :
        /\ hrun[r].call = "failed"
        /\ hrun[r].pc = "raised"
        /\ harmRuns = 2
        /\ CanonGraph = hrun[r].base
        /\ \E e \in ConceptNames \X CanonNames : alignsTo[e] = 1

\* C17: when apply_clusters is aborted by a failing statement, the graph
\* holds the writes of the statements before it and none of the later ones;
\* when the same cluster list is then applied again to its end, the
\* CanonicalConcept nodes, their descriptions and the ALIGNS_TO edges are
\* those of one uninterrupted run over the graph the first run started from.
C17_RetryCompletesTheWrites ==
    \A r \in SeqRunners :
        /\ (hrun[r].pc = "raised" /\ hrun[r].call = "ok" /\ ~hrun[r].retry)
              => CanonGraph = ApplyFrom(hrun[r].base, hrun[r].clusters, 1, 0,
                                        hrun[r].ci, hrun[r].si)
        /\ (hrun[r].pc = "done" /\ hrun[r].retry)
              => CanonGraph = apply_clusters(hrun[r].base, hrun[r].clusters)

\* C17 witness: the first run over an empty canonical graph was aborted, the
\* second run applied the same two clusters to the end, and the
\* CanonicalConcept and the edge of both clusters are there, once each.
C17_Witness ==
    \E r \in SeqRunners :
        /\ hrun[r].pc = "done"
        /\ hrun[r].retry
        /\ Len(hrun[r].clusters) = 2
        /\ hrun[r].clusters[1].canonical_name # hrun[r].clusters[2].canonical_name
        /\ hrun[r].base = NoCanon
        /\ \A i \in 1..2 :
              /\ canonCount[hrun[r].clusters[i].canonical_name] = 1
              /\ Len(hrun[r].clusters[i].source_concepts) = 1
              /\ alignsTo[<<hrun[r].clusters[i].source_concepts[1],
                            hrun[r].clusters[i].canonical_name>>] = 1

\* the slide ids of the page groups of the run that are not skipped as blank
RunSlides ==
    {<<irun.course, irun.pages[i].page_num>> :
        i \in {j \in 1..Len(irun.pages) : ~BlankGroup(irun.pages[j])}}

\* C15: a slide whose concept extraction call failed has its Slide node in
\* the graph, and when the run is over every page group of the course that
\* is not blank has its Slide node and had its extraction attempted.
C15_FailedExtractionKeepsSlideAndGoesOn ==
    /\ \A sl \in SlideIds : lastExtract[sl].state = "failed" => slideCount[sl] > 0
    /\ irun.pc = "done" =>
          \A sl \in RunSlides :
              slideCount[sl] > 0 /\ lastExtract[sl].state # "never"

C18_ConcurrentRunsAreSerializable ==
    LET a == hrun["h1"]
        b == hrun["h2"]
    IN (a.pc = "done" /\ a.call = "ok" /\ b.pc = "done" /\ b.call = "ok")
         => /\ \A k \in CanonNames : canonCount[k] <= 1
            /\ \A e \in ConceptNames \X CanonNames : alignsTo[e] <= 1
            /\ \/ CanonGraph = apply_clusters(apply_clusters(NoCanon, a.clusters), b.clusters)
               \/ CanonGraph = apply_clusters(apply_clusters(NoCanon, b.clusters), a.clusters)

\* the TargetNodes (with their order values) and the SUGGESTED_SOURCE edges
\* that _persist_project leaves under its Project when nothing else runs
AloneTargets(run) ==
    {[project |-> run.project_id, order |-> i - 1,
      is_unassigned |-> run.sections[i].is_unassigned] : i \in 1..Len(run.sections)}

AloneEdges(run) ==
    {e \in {run.project_id} \X (0..(Len(run.sections) - 1)) \X SlideIds :
        /\ slideCount[e[3]] > 0
        /\ \E k \in 1..Len(run.sections[e[2] + 1].suggested_slides) :
              run.sections[e[2] + 1].suggested_slides[k] = e[3]}

\* C19: whatever the interleaving of the statements of two concurrent
\* _persist_project calls, the two calls have distinct Projects, every
\* TargetNode a call wrote is under that call's Project and was written by no
\* other call, and when a call has finished the TargetNodes, order values and
\* SUGGESTED_SOURCE edges of its Project are those the call leaves when it
\* runs alone.
C19_ConcurrentPersistsAreIndependent ==
    \A r \in PersistRunners :
        /\ \A s \in PersistRunners \ {r} :
              /\ (prun[r].pc # "idle" /\ prun[s].pc # "idle")
                    => prun[r].project_id # prun[s].project_id
              /\ prun[r].created_targets \cap prun[s].created_targets = {}
        /\ \A t \in prun[r].created_targets :
              t.project = prun[r].project_id /\ t \in targetNodes
        /\ prun[r].pc = "done" =>
              /\ prun[r].project_id \in projects
              /\ {t \in targetNodes : t.project = prun[r].project_id}
                    = AloneTargets(prun[r])
              /\ {e \in suggestedSource : e[1] = prun[r].project_id}
                    = AloneEdges(prun[r])

\* C19 witness: one call has finished, with a TargetNode and a
\* SUGGESTED_SOURCE edge under its Project, while the other call, which
\* started before it, is still between its statements and has written a
\* TargetNode and an edge too.
C19_Witness ==
    /\ prun["g1"].pc = "done"
    /\ prun["g2"].pc = "persist"
    /\ prun["g2"].project_id < prun["g1"].project_id
    /\ prun["g1"].created_targets # {} /\ prun["g1"].created_edges # {}
    /\ prun["g2"].created_targets # {} /\ prun["g2"].created_edges # {}

\* C20: a call of the refactored generate_skeleton over at least one source
\* unit in which the skeleton model, every vector query and every graph
\* statement succeed returns the id of a Project that is in the graph and its
\* enriched sections; the Project has exactly one TargetNode per returned
\* section, and the SUGGESTED_SOURCE edges of each TargetNode point to exactly
\* the slides of the section's suggested_slides.
C20_SuccessfulRunReturnsAndPersists ==
    (/\ CopyRunOverSources
     /\ \A q \in DOMAIN grun.answers : grun.answers[q].ok
     /\ grun.outcome \notin {"persisting", "PersistError"})
       => /\ grun.outcome = "returned"
          /\ grun.project_id \in projects
          /\ \A i \in 1..Len(grun.sections) :
                /\ Cardinality({t \in targetNodes :
                       t.project = grun.project_id /\ t.order = i - 1}) = 1
                /\ {e[3] : e \in {d \in suggestedSource :
                       d[1] = grun.project_id /\ d[2] = i - 1}}
                      = Range(grun.sections[i].suggested_slides)
          /\ Cardinality({t \in targetNodes : t.project = grun.project_id})
                = Len(grun.sections)

\* the text lengths of the elements of a list, added up
RECURSIVE TotalLen(_, _)
TotalLen(els, i) == IF i > Len(els) THEN 0 ELSE els[i].len + TotalLen(els, i + 1)

\* C21: the grouping loop over elements that carry no page number and whose
\* texts total 3200 characters leaves exactly 3 page groups, whatever the
\* split of the 3200 characters into elements.
C21_ChunkingYieldsThreeGroups ==
    (/\ grouped.pc = "done"
     /\ \A i \in 1..Len(grouped.elements) : ~grouped.elements[i].has_page
     /\ TotalLen(grouped.elements, 1) = 3200)
       => Len(grouped.pages) = 3

\* the places <<group, position>> of the page groups that hold element i
PlacesOf(pages, i) ==
    {pl \in (1..Len(pages)) \X (1..MaxGroupElements) :
        pl[2] <= Len(pages[pl[1]].texts) /\ pages[pl[1]].texts[pl[2]].idx = i}

\* every element is in exactly one group and each group keeps the list order
PlacedOnceInOrder(run) ==
    /\ \A i \in 1..Len(run.elements) : Cardinality(PlacesOf(run.pages, i)) = 1
    /\ \A g \in 1..Len(run.pages) :
          \A k, l \in 1..Len(run.pages[g].texts) :
              k < l => run.pages[g].texts[k].idx < run.pages[g].texts[l].idx

\* current_chunk_page never goes down
CounterNeverDecreases(run) ==
    \A i \in 1..Len(run.counter) :
        /\ run.counter[i] >= 1
        /\ i > 1 => run.counter[i - 1] <= run.counter[i]

\* C26: after the grouping loop every text element is in exactly one page
\* group, the elements of a group are in their original relative order, the
\* synthetic page counter never decreased, and no group holds both an
\* element without a page number and an element with an explicit one.
C26_GroupingPartitionsInOrder ==
    grouped.pc = "done" =>
        /\ PlacedOnceInOrder(grouped)
        /\ CounterNeverDecreases(grouped)
        /\ \A g \in 1..Len(grouped.pages) :
              \A k, l \in 1..Len(grouped.pages[g].texts) :
                  grouped.pages[g].texts[k].has_page = grouped.pages[g].texts[l].has_page

\* max TEACHES salience of name n over the slides in the subtree of sec
SubtreeMax(sec, n) ==
    LET edges == {e \in teaches : e[1] \in SubtreeSlides(sec) /\ e[2] = n}
    IN salience[CHOOSE e \in edges : \A f \in edges : salience[e] >= salience[f]]

RankedByMax(sec, a, b) ==
    \/ SubtreeMax(sec, a) > SubtreeMax(sec, b)
    \/ SubtreeMax(sec, a) = SubtreeMax(sec, b) /\ NameRank(a) < NameRank(b)

\* the names of the top 15 concepts of the subtree of sec, in rank order
TopFifteen(sec) ==
    LET names == SubtreeNames(sec)
        k == Min(OUTLINE_CONCEPTS, Cardinality(names))
    IN {q \in [1..k -> names] :
          /\ \A i, j \in 1..k : i < j => RankedByMax(sec, q[i], q[j])
          /\ \A n \in names : (\A i \in 1..k : q[i] # n) =>
                \A i \in 1..k : RankedByMax(sec, q[i], n)}

\* C22: a _fetch_source_outlines call whose selection holds a Course with
\* child Sections returns exactly one outline unit for each of these
\* Sections, and the concepts of the unit are the concepts taught in the
\* Section's subtree, the 15 with the highest maximum salience, ordered by
\* that maximum descending and by name among equals, each tagged by its
\* maximum.
C22_CourseExpandsToItsSections ==
    \A c \in CourseIds :
        (/\ fetched.pc = "done"
         /\ CourseNode(c) \in fetched.selected
         /\ c \in courseNodes
         /\ SectionsBelow(CourseNode(c)) # {})
           => \A sec \in SectionsBelow(CourseNode(c)) :
                 /\ Cardinality({i \in 1..Len(fetched.outlines) :
                        fetched.outlines[i].section_title = sec}) = 1
                 /\ \A i \in 1..Len(fetched.outlines) :
                       fetched.outlines[i].section_title = sec =>
                          /\ [j \in 1..Len(fetched.outlines[i].concepts) |->
                                 fetched.outlines[i].concepts[j][1]] \in TopFifteen(sec)
                          /\ \A j \in 1..Len(fetched.outlines[i].concepts) :
                                fetched.outlines[i].concepts[j][2] =
                                   Tag(SubtreeMax(sec, fetched.outlines[i].concepts[j][1]))

\* the slides of the selected sources: those held by a selected node or by a
\* Section below it
SelectedSlides(selected) ==
    {sl \in SlideIds :
        \E n \in selected :
            /\ NodeExists(n)
            /\ \E node \in {n} \cup SectionsBelow(n) : <<node, sl>> \in hasSlide}

\* C23: the known-concepts set that _fetch_source_outlines returns for the
\* gap check holds every concept name taught by a slide of the selected
\* sources.
C23_KnownConceptsCoverTheSources ==
    fetched.pc = "done" =>
        \A e \in teaches :
            e[1] \in SelectedSlides(fetched.selected) => e[2] \in fetched.known

\* the number of entries the value at the key of template module m contributes
EntriesOf(plan, m) ==
    LET value == plan[TemplateModules[m].key] IN
    IF value.kind = "absent" THEN 0
    ELSE IF TemplateModules[m].is_list /\ value.kind = "array" THEN Len(value.items)
    ELSE 1

RECURSIVE EntriesBefore(_, _)
EntriesBefore(plan, m) ==
    IF m <= 1 THEN 0 ELSE EntriesOf(plan, m - 1) + EntriesBefore(plan, m - 1)

\* C24: when the model output is a mapping, forward returns the entries of
\* the template modules in template order: a key of a single module that is
\* in the output gives one entry, a key of a list module one entry per list
\* item, each tagged with the type of its module; a template key that is not
\* in the output gives nothing, and a key of the output that is not in the
\* template gives nothing either.
C24_MappingIsFlattenedInTemplateOrder ==
    (orun.pc = "done" /\ orun.output.kind = "mapping") =>
        LET plan == orun.output.plan IN
        /\ orun.outcome = "returned"
        /\ Len(orun.sections) = EntriesBefore(plan, Len(TemplateModules) + 1)
        /\ \A m \in 1..Len(TemplateModules) :
              \A k \in 1..EntriesOf(plan, m) :
                  EntriesBefore(plan, m) + k <= Len(orun.sections)
                     => orun.sections[EntriesBefore(plan, m) + k].type
                           = TemplateModules[m].type

\* the hits the query of the i-th key concept of the call returned
HitsOfQuery(run, i) ==
    LET response == run.answers[<<run.key_concepts[i]>>] IN
    IF response.ok THEN Range(Hits(response, HITS_PER_CONCEPT)) ELSE {}

\* C25: a call of iterative retrieval issues one query per concept among the
\* first 5 key concepts and so at most 5 queries, each limited to 2 hits and
\* answered from the allowed courses; it returns at most 6 slides, no slide
\* id twice, and the match reason of a returned slide is the earliest queried
\* concept whose query returned the slide.
C25_IterativeRetrievalIsBounded ==
    matched.pc = "done" =>
        LET asked == Min(PRIORITY_CONCEPTS, Len(matched.key_concepts)) IN
        /\ matched.queries = asked
        /\ matched.queries <= 5
        /\ Len(matched.slides) <= 6
        /\ \A k, l \in 1..Len(matched.slides) :
              k < l => matched.slides[k].slide_id # matched.slides[l].slide_id
        /\ \A k \in 1..Len(matched.slides) :
              /\ matched.slides[k].slide_id[1] \in matched.allowed
              /\ \E i \in 1..asked :
                    /\ matched.key_concepts[i] = matched.slides[k].match_reason
                    /\ matched.slides[k].slide_id \in HitsOfQuery(matched, i)
                    /\ \A j \in 1..(i - 1) :
                          matched.slides[k].slide_id \notin HitsOfQuery(matched, j)

\* C25 witness: a call with six key concepts whose first five queries
\* returned more than 6 different slides, one of them twice and one ranking
\* longer than 2 hits; 5 queries were issued and 6 slides returned.
C25_Witness ==
    /\ matched.pc = "done"
    /\ Len(matched.key_concepts) = 6
    /\ matched.queries = 5
    /\ Len(matched.slides) = 6
    /\ Cardinality(UNION {HitsOfQuery(matched, i) : i \in 1..5}) > 6
    /\ \E i, j \in 1..5 : i < j /\ HitsOfQuery(matched, i) \cap HitsOfQuery(matched, j) # {}
    /\ \E i \in 1..5 : Len(matched.answers[<<matched.key_concepts[i]>>].ranked) > 2
    /\ \E i \in 1..5 : ~matched.answers[<<matched.key_concepts[i]>>].ok

\* the outline units as the harmonizer receives them; a formatted concept is
\* the string "name tag", kept as the pair of its parts, and a bare concept
\* name is the string of its one part
UnitsHanded(outlines) ==
    [i \in 1..Len(outlines) |->
        [bu |-> "Unknown", section_title |-> outlines[i].section_title,
         concepts |-> outlines[i].concepts]]
KnownStrings(known) == {<<n>> : n \in known}

\* matching_concepts = [c for c in key_concepts if c in known_source_concepts]
matching_concepts(key_concepts, known) ==
    {j \in 1..Len(key_concepts) : key_concepts[j] \in KnownStrings(known)}

\* C27: every section that _fallback_merge builds from a fetched source unit
\* with at least one concept has a key concept that is in the known-concepts
\* set of the same fetch, so the gap check does not mark it.
C27_FallbackSectionsPassTheGapCheck ==
    fetched.pc = "done" =>
        LET sections == fallback_merge(UnitsHanded(fetched.outlines)) IN
        \A i \in 1..Len(sections) :
            fetched.outlines[i].concepts # <<>>
               => matching_concepts(sections[i].key_concepts, fetched.known) # {}

\* C28: when a build_knowledge_graph run is over, every page group of the
\* course that is not blank has a Slide node with a HAS_SLIDE edge from the
\* Course, and every slide id that has an object in the vector index has a
\* Slide node, whether or not the outline step of the run failed.
C28_SlidesExistAfterTheRun ==
    irun.pc = "done" =>
        /\ \A sl \in RunSlides :
              /\ slideCount[sl] > 0
              /\ <<CourseNode(irun.course), sl>> \in hasSlide
        /\ \A sl \in SlideIds : vectorCount[sl] > 0 => slideCount[sl] > 0

\* C29: when a run that re-ingests a course is over, each slide of the run
\* that already had its Slide node before the run has TEACHES edges to exactly
\* the concepts its latest extraction returned: none to a concept that
\* extraction did not return, and none at all when that extraction failed.
TeachesOf(sl) == {c \in ConceptNames : <<sl, c>> \in teaches}
C29_TeachesEdgesFollowTheLatestExtraction ==
    irun.pc = "done" =>
        \A sl \in RunSlides \cap irun.slidesBefore :
            TeachesOf(sl) = lastExtract[sl].names

(***************************************************************************)
(* The sensor alone, and under ticks that keep coming                      *)
(***************************************************************************)

SensorNext ==
    \/ \E i \in 1..Len(ObjectNames) : Upload(ObjectNames[i])
    \/ Tick

SpecSensor == IngestInit /\ [][SensorNext]_vars

\* the sensor daemon evaluates the sensor at every interval
SpecSensorFair == SpecSensor /\ WF_vars(Tick)

\* C30: under ticks that keep coming, every object of the bucket whose name
\* is {course_id}/{filename}, is not under generated/ and is not
\* metadata.json is eventually in the run requests of a tick, also when it
\* was uploaded after the cursor passed its name; no name is in the run
\* requests of two ticks; the cursor never moves back; a tick returns at
\* most 5 run requests.
CourseArtifact(name) ==
    Len(name) = 2 /\ ~InGenerated(name) /\ ~IsMetadata(name)
RequestedOnce == \A i \in 1..Len(ObjectNames) : sensor.ticks[i] <= 1
AtMostFivePerTick == Len(sensor.run_requests) <= 5
CursorNeverDecreases ==
    [][ObjectRank(sensor'.cursor) >= ObjectRank(sensor.cursor)]_vars
EveryArtifactIsRequested ==
    \A i \in 1..Len(ObjectNames) :
        (ObjectNames[i] \in sensor.bucket /\ CourseArtifact(ObjectNames[i]))
            ~> (sensor.ticks[i] > 0)
C30_EveryUploadIsRequestedOnce ==
    /\ [](RequestedOnce /\ AtMostFivePerTick)
    /\ CursorNeverDecreases
    /\ EveryArtifactIsRequested

====
